------------------------------ MODULE Spec2Model ------------------------------
(***************************************************************************)
(* The policy annotation engine and the byte/Unicode analyzer of           *)
(* src/app.py (LifeRec Checker 2.0.7).                                     *)
(*                                                                         *)
(* Texts are sequences of Unicode codepoints, as Python's str is.  Offsets *)
(* into a text are 0-based and half-open, as in the source: the character  *)
(* the source writes text[i] is At(text, i) here.  Confidences are written *)
(* in units of 1/10000 (0.98 is 9800).  Python's None is the empty tuple   *)
(* << >> and a present string s is << s >> (replacement: Optional[str]).   *)
(***************************************************************************)
EXTENDS Integers, Sequences, FiniteSets, TLC

VARIABLES
  pc,             \* position of the request being served
  text,           \* payload.text
  embedder,       \* _embedder: "absent" | "present" | "failing" (encode raises)
  hits_rule,      \* analyze: regex_match(payload.text)
  hits_alias,     \* analyze: alias_exact_match(payload.text)
  primary_hits,   \* analyze: collapse_parenthetical_duplicates(...)
  hits_semantic,  \* analyze: semantic_match(payload.text)
  known_hits,     \* analyze: merge_hits(primary_hits, hits_semantic)
  hits_unknown,   \* analyze: detect_unknown_abbreviations(text, known_hits)
  final_hits,     \* analyze: merge_hits(known_hits, hits_unknown)
  breq,           \* arguments of a call outside analyze (byte_count,
                  \* normalize_for_neis, chooseParticle)
  bresp,          \* its result, or what the page shows of analyze's result
  calls,          \* the locals of analyze calls served concurrently
  shared          \* module-level state: rule table and indexes built at import

vars == <<pc, text, embedder, hits_rule, hits_alias, primary_hits,
          hits_semantic, known_hits, hits_unknown, final_hits, breq, bresp,
          calls, shared>>

-----------------------------------------------------------------------------
(* Sequences and characters                                                *)

At(t, i) == t[i + 1]
Slice(t, s, e) == SubSeq(t, s + 1, e)

Max(S) == CHOOSE x \in S : \A y \in S : y <= x
Min(S) == CHOOSE x \in S : \A y \in S : x <= y

RECURSIVE Concat(_)
Concat(ss) == IF ss = << >> THEN << >> ELSE Head(ss) \o Concat(Tail(ss))

StartsWithAt(t, i, w) ==
  /\ i + Len(w) <= Len(t)
  /\ \A k \in 1..Len(w) : t[i + k] = w[k]

EndsWith(t, w) == Len(w) <= Len(t) /\ StartsWithAt(t, Len(t) - Len(w), w)

IsUpper(c) == c \in 65..90                       \* [A-Z]
IsAsciiLetter(c) == c \in 65..90 \/ c \in 97..122    \* [A-Za-z]
IsDigit(c) == c \in 48..57                       \* [0-9]
IsHangul(c) == c \in 44032..55203                \* [가-힣]
IsAlnumHangul(c) == IsAsciiLetter(c) \/ IsDigit(c) \/ IsHangul(c)

\* \w of a str pattern, on the ranges the rule table and the texts draw from:
\* ASCII letters and digits, the underscore, Hangul syllables, CJK ideographs.
IsWord(c) == IsAlnumHangul(c) \/ c = 95 \/ c \in 19968..40869

\* str.isspace(), and \s of a str pattern
IsSpace(c) ==
  \/ c \in 9..13 \/ c \in 28..32 \/ c = 133 \/ c = 160 \/ c = 5760
  \/ c \in 8192..8202 \/ c \in {8232, 8233, 8239, 8287, 12288}

\* str.lower() / re.IGNORECASE folding (only ASCII letters have case here)
Lower(c) == IF IsUpper(c) THEN c + 32 ELSE c
LowerStr(s) == [k \in 1..Len(s) |-> Lower(s[k])]

\* \b at offset p of t
WordBoundary(t, p) ==
  (p > 0 /\ IsWord(At(t, p - 1))) # (p < Len(t) /\ IsWord(At(t, p)))

-----------------------------------------------------------------------------
(* Rule repository.  RULES holds every rule of the source table that can   *)
(* match a text over the alphabet of Pieces (the others never fire on such *)
(* a text), each with its complete pattern text, in the table's order.     *)

RULES ==
  <<
    \* line 209: pattern (?:Jupyter|주피터|Colab|코랩|PyCharm|파이참|VS\s?Code|Visual\s?Studio\s?Code|비주얼\s?스튜디오\s?코드|Anaconda|Spyder)
    \*   label 프로그램명, replacement '개발 도구', confidence 0.92, aliases ['주피터', '코랩', '파이참', 'vscode', 'vs코드']
    [ line |-> 209,
      pattern |-> <<40, 63, 58, 74, 117, 112, 121, 116, 101, 114, 124, 51452, 54588, 53552, 124, 67, 111, 108, 97, 98, 124, 53076, 47017, 124, 80, 121, 67, 104, 97, 114, 109, 124, 54028, 51060, 52280, 124, 86, 83, 92, 115, 63, 67, 111, 100, 101, 124, 86, 105, 115, 117, 97, 108, 92, 115, 63, 83, 116, 117, 100, 105, 111, 92, 115, 63, 67, 111, 100, 101, 124, 48708, 51452, 50620, 92, 115, 63, 49828, 53916, 46356, 50724, 92, 115, 63, 53076, 46300, 124, 65, 110, 97, 99, 111, 110, 100, 97, 124, 83, 112, 121, 100, 101, 114, 41>>,
      label |-> <<54532, 47196, 44536, 47016, 47749>>,
      replacement |-> << <<44060, 48156, 32, 46020, 44396>> >>,
      confidence |-> 9200,
      aliases |-> << <<51452, 54588, 53552>>, <<53076, 47017>>, <<54028, 51060, 52280>>, <<118, 115, 99, 111, 100, 101>>, <<118, 115, 53076, 46300>> >>,
      delete_with_particle |-> FALSE ],
    \* line 218: pattern (?:UN|EU|ASEAN|APEC|G7|G20|WHO|WTO|OECD|IMF|IAEA|NATO|UNESCO|UNICEF|UNEP|UNDP|UNHCR|유엔|유럽연합)
    \*   label 기관명, replacement '국제기구', confidence 0.98, aliases ['유엔기구', '오이시디', '나토', '유네스코한국위원회']
    [ line |-> 218,
      pattern |-> <<40, 63, 58, 85, 78, 124, 69, 85, 124, 65, 83, 69, 65, 78, 124, 65, 80, 69, 67, 124, 71, 55, 124, 71, 50, 48, 124, 87, 72, 79, 124, 87, 84, 79, 124, 79, 69, 67, 68, 124, 73, 77, 70, 124, 73, 65, 69, 65, 124, 78, 65, 84, 79, 124, 85, 78, 69, 83, 67, 79, 124, 85, 78, 73, 67, 69, 70, 124, 85, 78, 69, 80, 124, 85, 78, 68, 80, 124, 85, 78, 72, 67, 82, 124, 50976, 50644, 124, 50976, 47101, 50672, 54633, 41>>,
      label |-> <<44592, 44288, 47749>>,
      replacement |-> << <<44397, 51228, 44592, 44396>> >>,
      confidence |-> 9800,
      aliases |-> << <<50976, 50644, 44592, 44396>>, <<50724, 51060, 49884, 46356>>, <<45208, 53664>>, <<50976, 45348, 49828, 53076, 54620, 44397, 50948, 50896, 54924>> >>,
      delete_with_particle |-> FALSE ],
    \* line 233: pattern \bNASA\b
    \*   label 기관명, replacement '미국항공우주국', confidence 0.95, aliases ['나사']
    [ line |-> 233,
      pattern |-> <<92, 98, 78, 65, 83, 65, 92, 98>>,
      label |-> <<44592, 44288, 47749>>,
      replacement |-> << <<48120, 44397, 54637, 44277, 50864, 51452, 44397>> >>,
      confidence |-> 9500,
      aliases |-> << <<45208, 49324>> >>,
      delete_with_particle |-> FALSE ],
    \* line 260: pattern (?:TOEIC|TOEFL|TEPS|토익|토플|탭스|토익시험|토플시험|탭스시험)
    \*   label 공인어학시험, replacement '', confidence 0.99, aliases ['토익점수', '토플점수', '탭스점수']
    [ line |-> 260,
      pattern |-> <<40, 63, 58, 84, 79, 69, 73, 67, 124, 84, 79, 69, 70, 76, 124, 84, 69, 80, 83, 124, 53664, 51061, 124, 53664, 54540, 124, 53485, 49828, 124, 53664, 51061, 49884, 54744, 124, 53664, 54540, 49884, 54744, 124, 53485, 49828, 49884, 54744, 41>>,
      label |-> <<44277, 51064, 50612, 54617, 49884, 54744>>,
      replacement |-> << << >> >>,
      confidence |-> 9900,
      aliases |-> << <<53664, 51061, 51216, 49688>>, <<53664, 54540, 51216, 49688>>, <<53485, 49828, 51216, 49688>> >>,
      delete_with_particle |-> TRUE ]
  >>

\* line 311: the alternatives of _JOSA_RE, in order: 으로|라서|라며|라고|이라|라|을|를|은|는|이|가|에|에서|에게|께서|로|와|과|도|만|까지|부터|처럼|보다|께|한테|에게서|이다|함
JOSA_ALTS ==
  <<
     <<51004, 47196>>,
     <<46972, 49436>>,
     <<46972, 47728>>,
     <<46972, 44256>>,
     <<51060, 46972>>,
     <<46972>>,
     <<51012>>,
     <<47484>>,
     <<51008>>,
     <<45716>>,
     <<51060>>,
     <<44032>>,
     <<50640>>,
     <<50640, 49436>>,
     <<50640, 44172>>,
     <<44760, 49436>>,
     <<47196>>,
     <<50752>>,
     <<44284>>,
     <<46020>>,
     <<47564>>,
     <<44620, 51648>>,
     <<48512, 53552>>,
     <<52376, 47100>>,
     <<48372, 45796>>,
     <<44760>>,
     <<54620, 53580>>,
     <<50640, 44172, 49436>>,
     <<51060, 45796>>,
     <<54632>> >>

\* lines 312-316: 프로그램, 개발, 진행, 통해, 작성, 정리, 제출, 보고서, 발표, 이동, 제작, 편집, 마무리, 활용, 참조, 옮겼다, 초안, 정리하고, 옮김, 검토, 결과, 내용, 학습, 활동
STOPWORDS_KO ==
  {<<54532, 47196, 44536, 47016>>,
   <<44060, 48156>>,
   <<51652, 54665>>,
   <<53685, 54644>>,
   <<51089, 49457>>,
   <<51221, 47532>>,
   <<51228, 52636>>,
   <<48372, 44256, 49436>>,
   <<48156, 54364>>,
   <<51060, 46041>>,
   <<51228, 51089>>,
   <<54200, 51665>>,
   <<47560, 47924, 47532>>,
   <<54876, 50857>>,
   <<52280, 51312>>,
   <<50734, 44220, 45796>>,
   <<52488, 50504>>,
   <<51221, 47532, 54616, 44256>>,
   <<50734, 44608>>,
   <<44160, 53664>>,
   <<44208, 44284>>,
   <<45236, 50857>>,
   <<54617, 49845>>,
   <<54876, 46041>>}

\* line 330: the brand suffixes, in order: 톡|그램|북|넷플|왓챠|웨일온|유튭|유튜브|티빙|캔바|키네|틱톡|페북|인스타|클래스룸|코랩|주피터|파이참
BRAND_SUFFIXES ==
  <<
     <<53665>>,
     <<44536, 47016>>,
     <<48513>>,
     <<45367, 54540>>,
     <<50771, 52320>>,
     <<50920, 51068, 50728>>,
     <<50976, 53933>>,
     <<50976, 53916, 48652>>,
     <<54000, 48729>>,
     <<52884, 48148>>,
     <<53412, 45348>>,
     <<54001, 53665>>,
     <<54168, 48513>>,
     <<51064, 49828, 53440>>,
     <<53364, 47000, 49828, 47352>>,
     <<53076, 47017>>,
     <<51452, 54588, 53552>>,
     <<54028, 51060, 52280>> >>

\* line 391: THE, AND, FOR, ARE, BUT, NOT, YOU, ALL, CAN, HAD, HER, WAS, ONE, OUR, OUT, HAS, HIS, HOW, ITS, MAY, NEW, NOW, OLD, SEE, WAY, BOY, DID, GET, HIM, LET, PUT, SAY, SHE, TOO, USE, TOP, END, SET, ADD
_COMMON_ENGLISH ==
  {<<84, 72, 69>>,
   <<65, 78, 68>>,
   <<70, 79, 82>>,
   <<65, 82, 69>>,
   <<66, 85, 84>>,
   <<78, 79, 84>>,
   <<89, 79, 85>>,
   <<65, 76, 76>>,
   <<67, 65, 78>>,
   <<72, 65, 68>>,
   <<72, 69, 82>>,
   <<87, 65, 83>>,
   <<79, 78, 69>>,
   <<79, 85, 82>>,
   <<79, 85, 84>>,
   <<72, 65, 83>>,
   <<72, 73, 83>>,
   <<72, 79, 87>>,
   <<73, 84, 83>>,
   <<77, 65, 89>>,
   <<78, 69, 87>>,
   <<78, 79, 87>>,
   <<79, 76, 68>>,
   <<83, 69, 69>>,
   <<87, 65, 89>>,
   <<66, 79, 89>>,
   <<68, 73, 68>>,
   <<71, 69, 84>>,
   <<72, 73, 77>>,
   <<76, 69, 84>>,
   <<80, 85, 84>>,
   <<83, 65, 89>>,
   <<83, 72, 69>>,
   <<84, 79, 79>>,
   <<85, 83, 69>>,
   <<84, 79, 80>>,
   <<69, 78, 68>>,
   <<83, 69, 84>>,
   <<65, 68, 68>>}

\* lines 88-111
SUSPICIOUS_CODEPOINTS ==
  {\H0009, \H000A, \H000D, \H00A0, \H2000, \H2001, \H2002, \H2003, \H2004, \H2005, \H2006, \H2007, \H2008, \H2009, \H200A, \H200B, \H200C, \H200D, \H202F, \H205F, \H3000, \HFEFF}

-----------------------------------------------------------------------------
(* Pattern compilation.  The patterns of RULES are alternations of         *)
(* literals, optionally wrapped in (?: ) and carrying \b and \s? only.     *)

\* (?:  ...  )  around the whole pattern
GroupBody(p) ==
  IF StartsWithAt(p, 0, <<40, 63, 58>>) /\ p[Len(p)] = 41
  THEN SubSeq(p, 4, Len(p) - 1)
  ELSE p

\* the alternatives of a pattern body, split at |
RECURSIVE SplitAlts(_, _)
SplitAlts(body, cur) ==
  IF body = << >> THEN <<cur>>
  ELSE IF Head(body) = 124 THEN <<cur>> \o SplitAlts(Tail(body), << >>)
  ELSE SplitAlts(Tail(body), Append(cur, Head(body)))

\* one alternative as atoms: \b, \s? or a literal character
RECURSIVE Atoms(_)
Atoms(a) ==
  IF a = << >> THEN << >>
  ELSE IF StartsWithAt(a, 0, <<92, 98>>)
    THEN <<[kind |-> "boundary", c |-> 0]>> \o Atoms(SubSeq(a, 3, Len(a)))
  ELSE IF StartsWithAt(a, 0, <<92, 115, 63>>)
    THEN <<[kind |-> "optspace", c |-> 0]>> \o Atoms(SubSeq(a, 4, Len(a)))
  ELSE <<[kind |-> "lit", c |-> Head(a)]>> \o Atoms(Tail(a))

Compile(p) ==
  LET alts == SplitAlts(GroupBody(p), << >>)
  IN  [k \in 1..Len(alts) |-> Atoms(alts[k])]

COMPILED == [r \in 1..Len(RULES) |-> Compile(RULES[r].pattern)]

\* the end of the match of atoms[k..] at offset p under re.IGNORECASE, or -1
RECURSIVE MatchAtoms(_, _, _, _)
MatchAtoms(t, p, atoms, k) ==
  IF k > Len(atoms) THEN p
  ELSE LET a == atoms[k] IN
    CASE a.kind = "lit" ->
           IF p < Len(t) /\ Lower(At(t, p)) = Lower(a.c)
           THEN MatchAtoms(t, p + 1, atoms, k + 1) ELSE -1
      [] a.kind = "boundary" ->
           IF WordBoundary(t, p) THEN MatchAtoms(t, p, atoms, k + 1) ELSE -1
      [] a.kind = "optspace" ->
           IF p < Len(t) /\ IsSpace(At(t, p))
           THEN LET r == MatchAtoms(t, p + 1, atoms, k + 1)
                IN  IF r # -1 THEN r ELSE MatchAtoms(t, p, atoms, k + 1)
           ELSE MatchAtoms(t, p, atoms, k + 1)

\* the end of the first alternative (in pattern order) matching at p, or -1
RECURSIVE MatchAlts(_, _, _, _)
MatchAlts(t, p, alts, k) ==
  IF k > Len(alts) THEN -1
  ELSE LET e == MatchAtoms(t, p, alts[k], 1)
       IN  IF e # -1 THEN e ELSE MatchAlts(t, p, alts, k + 1)

\* re.finditer(pattern, text, flags=re.IGNORECASE): the [start, end) spans
RECURSIVE FindIter(_, _, _)
FindIter(t, p, alts) ==
  IF p >= Len(t) THEN << >>
  ELSE LET e == MatchAlts(t, p, alts, 1) IN
       IF e = -1 THEN FindIter(t, p + 1, alts)
       ELSE <<[start |-> p, end |-> e]>> \o FindIter(t, e, alts)

-----------------------------------------------------------------------------
(* Hits                                                                    *)

Hit(span, label, replacement, confidence, source, start, end, dwp) ==
  [span |-> span, label |-> label, replacement |-> replacement,
   confidence |-> confidence, source |-> source, start |-> start,
   end |-> end, delete_with_particle |-> dwp]

RuleHitByteOffsets(t, rule, m) ==
  LET b[k \in 0..Len(t)] ==
        IF k = 0 THEN 0
        ELSE b[k - 1] + (IF t[k] < 128 THEN 1 ELSE IF t[k] < 2048 THEN 2
                         ELSE IF t[k] < 65536 THEN 3 ELSE 4)
  IN  Hit(Slice(t, m.start, m.end), rule.label, rule.replacement,
          rule.confidence, rule.line, b[m.start], b[m.end],
          rule.delete_with_particle)

\* the Source copied from a rule is named by the rule's line in the table
RuleHit(t, rule, m) ==
  Hit(Slice(t, m.start, m.end), rule.label, rule.replacement,
      rule.confidence, rule.line, m.start, m.end, rule.delete_with_particle)

RECURSIVE regex_match_from(_, _)
regex_match_from(t, r) ==
  IF r > Len(RULES) THEN << >>
  ELSE LET ms == FindIter(t, 0, COMPILED[r])
       IN  [k \in 1..Len(ms) |-> RuleHit(t, RULES[r], ms[k])]
           \o regex_match_from(t, r + 1)

regex_match(t) == regex_match_from(t, 1)

-----------------------------------------------------------------------------
(* Stable sorting, as Python's sorted(): keys are tuples of integers of    *)
(* one length, compared lexicographically; equal keys keep their order.    *)

RECURSIVE KeyLess(_, _)
KeyLess(a, b) ==
  IF a = << >> THEN FALSE
  ELSE IF Head(a) # Head(b) THEN Head(a) < Head(b)
  ELSE KeyLess(Tail(a), Tail(b))

\* seq sorted by keys (keys[i] is the key of seq[i])
SortedBy(seq, keys) ==
  LET n == Len(seq)
      Rank(i) == Cardinality({j \in 1..n :
                    KeyLess(keys[j], keys[i]) \/ (keys[j] = keys[i] /\ j < i)})
  IN  [pos \in 1..n |-> seq[CHOOSE i \in 1..n : Rank(i) = pos - 1]]

-----------------------------------------------------------------------------
(* Abbreviation index (lines 380-388) and unknown-abbreviation pass        *)

\* p[g+1 .. g+n] exist and are all [A-Z0-9]
AbbrevTail(p, g, n) ==
  \A k \in 1..n : g + k < Len(p) /\ (IsUpper(At(p, g + k)) \/ IsDigit(At(p, g + k)))

\* re.findall(r'\\b([A-Z][A-Z0-9]{1,10})\\b', pattern), from offset i
RECURSIVE FindBounded(_, _)
FindBounded(p, i) ==
  IF i >= Len(p) THEN {}
  ELSE LET g == i + 2
           N == {n \in 1..10 :
                   /\ StartsWithAt(p, i, <<92, 98>>)
                   /\ g < Len(p) /\ IsUpper(At(p, g))
                   /\ AbbrevTail(p, g, n)
                   /\ StartsWithAt(p, g + 1 + n, <<92, 98>>)}
       IN  IF N = {} THEN FindBounded(p, i + 1)
           ELSE {Slice(p, g, g + 1 + Max(N))}
                  \cup FindBounded(p, g + 1 + Max(N) + 2)

\* the group lengths n for which [A-Z][A-Z0-9]{n} at g is followed by [|)] or $
DelimitedLens(p, g) ==
  {n \in 1..10 :
     /\ g < Len(p) /\ IsUpper(At(p, g))
     /\ AbbrevTail(p, g, n)
     /\ LET e == g + 1 + n
        IN  e = Len(p) \/ (e < Len(p) /\ At(p, e) \in {124, 41})}

\* re.findall(r'(?:^|[|(?:])([A-Z][A-Z0-9]{1,10})(?:[|)]|$)', pattern), from i
RECURSIVE FindDelimited(_, _)
FindDelimited(p, i) ==
  IF i >= Len(p) THEN {}
  ELSE LET g == IF i = 0 /\ DelimitedLens(p, 0) # {} THEN 0
                ELSE IF At(p, i) \in {124, 40, 63, 58} THEN i + 1
                ELSE -1
           N == IF g = -1 THEN {} ELSE DelimitedLens(p, g)
       IN  IF N = {} THEN FindDelimited(p, i + 1)
           ELSE LET e == g + 1 + Max(N)
                IN  {Slice(p, g, e)}
                      \cup FindDelimited(p, IF e < Len(p) THEN e + 1 ELSE e)

_KNOWN_ABBREVS ==
  UNION {FindBounded(RULES[r].pattern, 0) \cup FindDelimited(RULES[r].pattern, 0)
           : r \in 1..Len(RULES)}

\* line 411: the label of an unknown abbreviation
UNKNOWN_LABEL == <<48120, 54869, 51064, 32, 50689, 47928, 32, 50557, 50612>>

\* lines 409-416: the hit of an unknown abbreviation
UnknownHit(abbrev, start, end) ==
  Hit(abbrev, UNKNOWN_LABEL, << >>, 8500, 414, start, end, FALSE)

\* the length of the match of (?<![A-Za-z])([A-Z]{2,10})(?![A-Za-z]) at i, or 0
UnknownLen(t, i) ==
  LET N == {n \in 2..10 :
              /\ i = 0 \/ ~IsAsciiLetter(At(t, i - 1))
              /\ i + n <= Len(t)
              /\ \A k \in 0..(n - 1) : IsUpper(At(t, i + k))
              /\ i + n = Len(t) \/ ~IsAsciiLetter(At(t, i + n))}
  IN  IF N = {} THEN 0 ELSE Max(N)

\* UnknownSkipped without the look-up in the abbreviation index
UnknownSkippedCoveredOnly(abbrev, start, end, covered) ==
  \/ \E i \in start..(end - 1) : i \in covered
  \/ abbrev \in _COMMON_ENGLISH

\* lines 405-408: whether the candidate [start, end) is dropped
UnknownSkipped(abbrev, start, end, covered) ==
  \/ \E i \in start..(end - 1) : i \in covered
  \/ abbrev \in _KNOWN_ABBREVS
  \/ abbrev \in _COMMON_ENGLISH

RECURSIVE UnknownFrom(_, _, _)
UnknownFrom(t, i, covered) ==
  IF i >= Len(t) THEN << >>
  ELSE LET n == UnknownLen(t, i) IN
       IF n = 0 THEN UnknownFrom(t, i + 1, covered)
       ELSE LET abbrev == Slice(t, i, i + n) IN
            (IF UnknownSkipped(abbrev, i, i + n, covered) THEN << >>
             ELSE <<UnknownHit(abbrev, i, i + n)>>)
            \o UnknownFrom(t, i + n, covered)

\* Covered with the exclusion mask left empty
CoveredNothing(existing_hits) == {}

\* lines 397-400: the offsets covered by the existing hits
Covered(existing_hits) ==
  UNION {existing_hits[k].start .. (existing_hits[k].end - 1)
           : k \in 1..Len(existing_hits)}

detect_unknown_abbreviations(t, existing_hits) ==
  UnknownFrom(t, 0, Covered(existing_hits))

-----------------------------------------------------------------------------
(* Exact-alias pass                                                        *)

\* lines 356-361: the (key, rule) assignments in execution order
RECURSIVE AliasAssignments(_, _)
AliasAssignments(r, k) ==
  IF r > Len(RULES) THEN << >>
  ELSE IF k > Len(RULES[r].aliases) THEN AliasAssignments(r + 1, 1)
  ELSE (IF RULES[r].aliases[k] = << >> THEN << >>
        ELSE <<[key |-> LowerStr(RULES[r].aliases[k]), rule |-> r]>>)
       \o AliasAssignments(r, k + 1)

ALIAS_ASSIGNMENTS == AliasAssignments(1, 1)

\* _ALIAS_EXACT_MAP.keys(): each key at its first insertion
AliasKeys ==
  LET A == ALIAS_ASSIGNMENTS
      first == {i \in 1..Len(A) : \A j \in 1..(i - 1) : A[j].key # A[i].key}
      idx == SortedBy([i \in 1..Len(A) |-> i], [i \in 1..Len(A) |-> <<IF i \in first THEN 0 ELSE 1, i>>])
  IN  [k \in 1..Cardinality(first) |-> A[idx[k]].key]

\* _ALIAS_EXACT_MAP.get(key): the last rule assigned to key, 0 when absent
AliasRule(key) ==
  LET A == ALIAS_ASSIGNMENTS
      S == {i \in 1..Len(A) : A[i].key = key}
  IN  IF S = {} THEN 0 ELSE A[Max(S)].rule

\* line 425: sorted(_ALIAS_EXACT_MAP.keys(), key=len, reverse=True)
SortedAliases ==
  SortedBy(AliasKeys, [k \in 1..Len(AliasKeys) |-> <<-Len(AliasKeys[k])>>])

\* the alias literal a matches at i under re.IGNORECASE
LiteralAtI(t, i, a) ==
  /\ i + Len(a) <= Len(t)
  /\ \A k \in 1..Len(a) : Lower(t[i + k]) = Lower(a[k])

\* the end of the match of (?<![A-Za-z0-9가-힣])(alt)(?![A-Za-z0-9가-힣]) at i, or -1
AliasEnd(t, i) ==
  IF i > 0 /\ IsAlnumHangul(At(t, i - 1)) THEN -1
  ELSE LET ok == {k \in 1..Len(SortedAliases) :
                    /\ LiteralAtI(t, i, SortedAliases[k])
                    /\ LET e == i + Len(SortedAliases[k])
                       IN  e = Len(t) \/ ~IsAlnumHangul(At(t, e))}
       IN  IF ok = {} THEN -1 ELSE i + Len(SortedAliases[Min(ok)])

AliasHitAtRuleConfidence(t, rule, start, end) ==
  Hit(Slice(t, start, end), rule.label, rule.replacement, rule.confidence,
      rule.line, start, end, FALSE)

\* lines 433-439: the hit of an alias match (delete_with_particle is not passed)
AliasHit(t, rule, start, end) ==
  Hit(Slice(t, start, end), rule.label, rule.replacement, 9400, rule.line,
      start, end, FALSE)

RECURSIVE AliasFrom(_, _)
AliasFrom(t, i) ==
  IF i >= Len(t) THEN << >>
  ELSE LET e == AliasEnd(t, i) IN
       IF e = -1 THEN AliasFrom(t, i + 1)
       ELSE LET r == AliasRule(LowerStr(Slice(t, i, e))) IN
            (IF r = 0 THEN << >> ELSE <<AliasHit(t, RULES[r], i, e)>>)
            \o AliasFrom(t, e)

alias_exact_match(t) ==
  IF Len(ALIAS_ASSIGNMENTS) = 0 THEN << >> ELSE AliasFrom(t, 0)

-----------------------------------------------------------------------------
(* Semantic / fuzzy pass                                                   *)

\* line 311: _JOSA_RE.sub("", tok): the leftmost offset at which one of the
\* alternatives reaches the end of tok is where tok is cut
JosaCut(tok) ==
  LET P == {p \in 0..(Len(tok) - 1) :
              \E k \in 1..Len(JOSA_ALTS) :
                 /\ StartsWithAt(tok, p, JOSA_ALTS[k])
                 /\ p + Len(JOSA_ALTS[k]) = Len(tok)}
  IN  IF P = {} THEN tok ELSE Slice(tok, 0, Min(P))

IsHangulToken(tok) == tok # << >> /\ \A k \in 1..Len(tok) : IsHangul(tok[k])

_normalize_ko_token(tok) == IF IsHangulToken(tok) THEN JosaCut(tok) ELSE tok

_should_consider_token(tok) ==
  LET base == _normalize_ko_token(tok) IN
    /\ base \notin STOPWORDS_KO
    /\ IsHangulToken(tok) =>
         \E k \in 1..Len(BRAND_SUFFIXES) : EndsWith(base, BRAND_SUFFIXES[k])

\* [A-Za-z가-힣0-9\.\-_/()]
IsTokenChar(c) == IsAlnumHangul(c) \/ c \in {46, 45, 95, 47, 40, 41}

\* the end of the match of \b[A-Za-z가-힣0-9][A-Za-z가-힣0-9\.\-_/()]*\b at i, or -1
TokenEnd(t, i) ==
  IF ~(WordBoundary(t, i) /\ i < Len(t) /\ IsAlnumHangul(At(t, i))) THEN -1
  ELSE LET E == {e \in (i + 1)..Len(t) :
                   /\ \A k \in (i + 1)..(e - 1) : IsTokenChar(At(t, k))
                   /\ WordBoundary(t, e)}
       IN  IF E = {} THEN -1 ELSE Max(E)

\* str.strip()
RECURSIVE Strip(_)
Strip(s) ==
  IF s = << >> THEN s
  ELSE IF IsSpace(Head(s)) THEN Strip(Tail(s))
  ELSE IF IsSpace(s[Len(s)]) THEN Strip(SubSeq(s, 1, Len(s) - 1))
  ELSE s

\* lines 443-450, from offset i: the (token, start, end) triples yielded
RECURSIVE CandidatesFrom(_, _)
CandidatesFrom(t, i) ==
  IF i >= Len(t) THEN << >>
  ELSE LET e == TokenEnd(t, i) IN
       IF e = -1 THEN CandidatesFrom(t, i + 1)
       ELSE LET token == Strip(Slice(t, i, e)) IN
            (IF Len(token) >= 2 /\ Len(token) <= 30 /\ _should_consider_token(token)
             THEN <<[token |-> token, start |-> i, end |-> e]>>
             ELSE << >>)
            \o CandidatesFrom(t, e)

_get_semantic_candidates(t) == CandidatesFrom(t, 0)

\* lines 336-350: _ALIAS_RULES, the rule of every non-blank alias, in order
RECURSIVE AliasIndexRules(_, _)
AliasIndexRules(r, k) ==
  IF r > Len(RULES) THEN << >>
  ELSE IF k > Len(RULES[r].aliases) THEN AliasIndexRules(r + 1, 1)
  ELSE (IF Strip(RULES[r].aliases[k]) = << >> THEN << >> ELSE <<r>>)
       \o AliasIndexRules(r, k + 1)

_ALIAS_RULES == AliasIndexRules(1, 1)

\* line 467: int(np.argmax(row)), the first index of the maximum
ArgMax(row) == Min({k \in 1..Len(row) : \A j \in 1..Len(row) : row[j] <= row[k]})

\* line 469: the second largest entry of row
Second(row) ==
  IF Len(row) > 1
  THEN Max({row[k] : k \in (1..Len(row)) \ {ArgMax(row)}})
  ELSE 0

\* line 470, similarities in hundredths: threshold 0.86, margin 0.06
Accepted(score, second) == score >= 86 /\ score - second >= 6

\* FuzzyConfidence without the compression and the clamp
FuzzyConfidenceUncompressed(score) == score * 100

\* line 476: min(0.88, max(0.6, score * 0.85)), score in hundredths
FuzzyConfidence(score) ==
  LET c == score * 85
      lo == IF c > 6000 THEN c ELSE 6000
  IN  IF lo < 8800 THEN lo ELSE 8800

\* lines 462-483: the loop over the rows of sim_matrix
RECURSIVE SemanticLoop(_, _, _, _, _)
SemanticLoop(cands, sim, i, hits, used_spans) ==
  IF i > Len(cands) \/ Len(hits) >= 10 THEN hits
  ELSE LET row == sim[i]
           best == ArgMax(row)
           score == row[best]
           c == cands[i]
       IN  IF ~Accepted(score, Second(row)) \/ <<c.start, c.end>> \in used_spans
           THEN SemanticLoop(cands, sim, i + 1, hits, used_spans)
           ELSE SemanticLoop(cands, sim, i + 1,
                  Append(hits,
                    Hit(c.token, RULES[_ALIAS_RULES[best]].label,
                        RULES[_ALIAS_RULES[best]].replacement,
                        FuzzyConfidence(score), RULES[_ALIAS_RULES[best]].line,
                        c.start, c.end, FALSE)),
                  used_spans \cup {<<c.start, c.end>>})

\* semantic_match(text); sim is sim_matrix, one row per candidate
semantic_match(t, emb, sim) ==
  IF emb = "absent" \/ _ALIAS_RULES = << >> THEN << >>
  ELSE IF _get_semantic_candidates(t) = << >> THEN << >>
  ELSE SemanticLoop(_get_semantic_candidates(t), sim, 1, << >>, {})

-----------------------------------------------------------------------------
(* Conflict resolver                                                       *)

\* while k < len(text) and text[k].isspace(): k += 1
RECURSIVE SkipSpaces(_, _)
SkipSpaces(t, k) ==
  IF k < Len(t) /\ IsSpace(At(t, k)) THEN SkipSpaces(t, k + 1) ELSE k

\* lines 509-511: while j < n and hits[j].start < k + 1: j += 1
RECURSIVE NextInside(_, _, _)
NextInside(hits, j, k) ==
  IF j <= Len(hits) /\ hits[j].start < k + 1 THEN NextInside(hits, j + 1, k) ELSE j

\* CanCombine with the inner hit required to start after inner_start
CanCombineStrictlyInside(hi, hj, inner_start, close_pos) ==
  /\ hj.start > inner_start /\ hj.end <= close_pos
  /\ hi.label = hj.label /\ hi.replacement = hj.replacement
  /\ hi.replacement # << >>

\* lines 527-529
CanCombine(hi, hj, inner_start, close_pos) ==
  /\ hj.start >= inner_start /\ hj.end <= close_pos
  /\ hi.label = hj.label /\ hi.replacement = hj.replacement
  /\ hi.replacement # << >>

\* Combined with the span cut before the closing parenthesis
CombinedSpanWithoutParen(t, hi, hj, close_pos) ==
  Hit(Slice(t, hi.start, close_pos), hi.label, hi.replacement,
      IF hi.confidence >= hj.confidence THEN hi.confidence ELSE hj.confidence,
      hi.source, hi.start, close_pos + 1, FALSE)

\* lines 531-539
Combined(t, hi, hj, close_pos) ==
  Hit(Slice(t, hi.start, close_pos + 1), hi.label, hi.replacement,
      IF hi.confidence >= hj.confidence THEN hi.confidence ELSE hj.confidence,
      hi.source, hi.start, close_pos + 1, FALSE)

\* lines 501-544 for hits[i]: the index j it combines with and the closing
\* parenthesis, or j = 0 when hits[i] takes the default path
CollapsePartner(t, hits, i) ==
  LET hi == hits[i]
      k == SkipSpaces(t, hi.end)
      j == NextInside(hits, i + 1, k)
      none == [j |-> 0, close_pos |-> 0]
  IN  IF ~(k < Len(t) /\ At(t, k) = 40) THEN none
      ELSE IF j > Len(hits) THEN none
      ELSE LET inner_start == SkipSpaces(t, k + 1)
               tmp == SkipSpaces(t, hits[j].end)
           IN  IF tmp < Len(t) /\ At(t, tmp) = 41
                  /\ CanCombine(hi, hits[j], inner_start, tmp)
               THEN [j |-> j, close_pos |-> tmp]
               ELSE none

\* lines 497-548: the while loop, from index i
RECURSIVE CollapseLoop(_, _, _, _, _)
CollapseLoop(t, hits, i, used, result) ==
  IF i > Len(hits) THEN [used |-> used, result |-> result]
  ELSE IF i \in used THEN CollapseLoop(t, hits, i + 1, used, result)
  ELSE LET p == CollapsePartner(t, hits, i) IN
       IF p.j # 0
       THEN CollapseLoop(t, hits, i + 1, used \cup {i, p.j},
              Append(result, Combined(t, hits[i], hits[p.j], p.close_pos)))
       ELSE CollapseLoop(t, hits, i + 1, used \cup {i}, Append(result, hits[i]))

PositionKey(h) == <<h.start, h.end>>

SortByPosition(hits) == SortedBy(hits, [k \in 1..Len(hits) |-> PositionKey(hits[k])])

DedupKey(h) == <<h.start, h.end, h.label, h.replacement>>

\* lines 554-562: the first hit of each key, in order
Dedup(sorted) ==
  LET keep == {i \in 1..Len(sorted) :
                 \A j \in 1..(i - 1) : DedupKey(sorted[j]) # DedupKey(sorted[i])}
      idx == SortedBy([i \in 1..Len(sorted) |-> i],
                      [i \in 1..Len(sorted) |-> <<IF i \in keep THEN 0 ELSE 1, i>>])
  IN  [k \in 1..Cardinality(keep) |-> sorted[idx[k]]]

collapse_parenthetical_duplicates(t, hits) ==
  LET sorted == SortByPosition(hits)
      loop == CollapseLoop(t, sorted, 1, {}, << >>)
  IN  Dedup(SortByPosition(
        loop.result
        \o Concat([k \in 1..Len(sorted) |->
                     IF k \in loop.used THEN << >> ELSE <<sorted[k]>>])))

\* MergeKey of the start alone
MergeKeyOfStartAlone(h) == <<h.start, 0, 0>>

\* MergeKey without the span length
MergeKeyWithoutLength(h) == <<h.start, -h.confidence>>

\* line 569: the sort key of merge_hits
MergeKey(h) == <<h.start, -(h.end - h.start), -h.confidence>>

\* Keeps with the end of the hit compared instead of its start
KeepsUnlessEndsEarlier(hit, last_hit_end) == hit.end >= last_hit_end

\* line 575: whether the scan keeps hit
Keeps(hit, last_hit_end) == hit.start >= last_hit_end

\* lines 573-577: the scan, from index i
RECURSIVE MergeScan(_, _, _, _)
MergeScan(all_hits, i, last_hit_end, merged) ==
  IF i > Len(all_hits) THEN merged
  ELSE IF Keeps(all_hits[i], last_hit_end)
       THEN MergeScan(all_hits, i + 1, all_hits[i].end, Append(merged, all_hits[i]))
       ELSE MergeScan(all_hits, i + 1, last_hit_end, merged)

\* merge_hits(*hit_groups)
merge_hits(hit_groups) ==
  LET all_hits == Concat(hit_groups)
      sorted == SortedBy(all_hits, [k \in 1..Len(all_hits) |-> MergeKey(all_hits[k])])
  IN  IF all_hits = << >> THEN << >> ELSE MergeScan(sorted, 1, -1, << >>)
-----------------------------------------------------------------------------
(* Particle inflector (the page script, lines 707-741)                     *)

\* String.prototype.trim: white space and line terminators of ECMAScript
IsJsSpace(c) ==
  \/ c \in 9..13 \/ c = 32 \/ c = 160 \/ c = 5760 \/ c \in 8192..8202
  \/ c \in {8232, 8233, 8239, 8287, 12288, 65279}

RECURSIVE JsTrimStart(_)
JsTrimStart(s) ==
  IF s # << >> /\ IsJsSpace(Head(s)) THEN JsTrimStart(Tail(s)) ELSE s

RECURSIVE JsTrimEnd(_)
JsTrimEnd(s) ==
  IF s # << >> /\ IsJsSpace(s[Len(s)]) THEN JsTrimEnd(SubSeq(s, 1, Len(s) - 1))
  ELSE s

JsTrim(s) == JsTrimEnd(JsTrimStart(s))

\* word[word.length-1].charCodeAt(0): the last UTF-16 code unit, which for a
\* codepoint above U+FFFF is its low surrogate
LastCharCode(word) ==
  LET c == word[Len(word)]
  IN  IF c > 65535 THEN 56320 + ((c - 65536) % 1024) ELSE c

\* _lastHangulHasBatchim with the test of jong inverted
_lastHangulHasBatchimInverted(word) ==
  LET w == JsTrim(word) IN
  IF w = << >> THEN FALSE
  ELSE LET ch == LastCharCode(w) IN
       IF ch < 44032 \/ ch > 55203 THEN FALSE
       ELSE (ch - 44032) % 28 = 0

\* lines 708-715
_lastHangulHasBatchim(word) ==
  LET w == JsTrim(word) IN
  IF w = << >> THEN FALSE
  ELSE LET ch == LastCharCode(w) IN
       IF ch < 44032 \/ ch > 55203 THEN FALSE
       ELSE (ch - 44032) % 28 # 0

\* _lastHangulIsRieul with every jong from 8 on taken for the liquid
_lastHangulIsRieulOrLater(word) ==
  LET w == JsTrim(word) IN
  IF w = << >> THEN FALSE
  ELSE LET ch == LastCharCode(w) IN
       IF ch < 44032 \/ ch > 55203 THEN FALSE
       ELSE (ch - 44032) % 28 >= 8

\* lines 716-723
_lastHangulIsRieul(word) ==
  LET w == JsTrim(word) IN
  IF w = << >> THEN FALSE
  ELSE LET ch == LastCharCode(w) IN
       IF ch < 44032 \/ ch > 55203 THEN FALSE
       ELSE (ch - 44032) % 28 = 8

\* the particles of the switch
P_RO == <<47196>>
P_EURO == <<51004, 47196>>
P_WA == <<50752>>
P_GWA == <<44284>>
P_NEUN == <<45716>>
P_EUN == <<51008>>
P_GA == <<44032>>
P_I == <<51060>>
P_REUL == <<47484>>
P_EUL == <<51012>>

\* chooseParticle with the two results of the 와/과 case exchanged
chooseParticleWaGwaExchanged(baseWord, particle) ==
  LET hasBatchim == _lastHangulHasBatchim(baseWord) IN
  CASE particle \in {P_RO, P_EURO} ->
         IF ~hasBatchim \/ _lastHangulIsRieul(baseWord) THEN P_RO ELSE P_EURO
    [] particle \in {P_WA, P_GWA} -> IF hasBatchim THEN P_WA ELSE P_GWA
    [] particle \in {P_NEUN, P_EUN} -> IF hasBatchim THEN P_EUN ELSE P_NEUN
    [] particle \in {P_GA, P_I} -> IF hasBatchim THEN P_I ELSE P_GA
    [] particle \in {P_REUL, P_EUL} -> IF hasBatchim THEN P_EUL ELSE P_REUL
    [] OTHER -> particle

\* lines 724-741
chooseParticle(baseWord, particle) ==
  LET hasBatchim == _lastHangulHasBatchim(baseWord) IN
  CASE particle \in {P_RO, P_EURO} ->
         IF ~hasBatchim \/ _lastHangulIsRieul(baseWord) THEN P_RO ELSE P_EURO
    [] particle \in {P_WA, P_GWA} -> IF hasBatchim THEN P_GWA ELSE P_WA
    [] particle \in {P_NEUN, P_EUN} -> IF hasBatchim THEN P_EUN ELSE P_NEUN
    [] particle \in {P_GA, P_I} -> IF hasBatchim THEN P_I ELSE P_GA
    [] particle \in {P_REUL, P_EUL} -> IF hasBatchim THEN P_EUL ELSE P_REUL
    [] OTHER -> particle

-----------------------------------------------------------------------------
(* Preview and apply-all of the page script (lines 637-1000); a JavaScript  *)
(* string index is a UTF-16 code unit, equal to the codepoint index on     *)
(* texts of the basic plane                                                *)

\* line 637: const MIN_PREVIEW_CONF = 0.90
MIN_PREVIEW_CONF == 9000

\* lines 745 and 912: /^(으로|로|을|를|은|는|이|가|과|와)/
SPLICE_PARTICLES ==
  <<<<51004, 47196>>, <<47196>>, <<51012>>, <<47484>>, <<51008>>, <<45716>>, <<51060>>, <<44032>>, <<44284>>, <<50752>>>>

\* line 761: PARTICLE_PATTERN
PARTICLE_PATTERN ==
  <<<<51004, 47196>>, <<50640, 49436>>, <<50640, 44172>>, <<46972, 49436>>, <<46972, 47728>>,
    <<46972, 44256>>, <<51060, 46972>>, <<47196>>, <<51012>>, <<47484>>,
    <<51008>>, <<45716>>, <<51060>>, <<44032>>, <<44284>>,
    <<50752>>, <<50640>>, <<46020>>, <<47564>>, <<44620, 51648>>,
    <<48512, 53552>>, <<52376, 47100>>, <<48372, 45796>>, <<44760>>, <<54620, 53580>>,
    <<46972>>>>

\* text.slice(s, e) for 0 <= s
JsSlice(t, s, e) ==
  LET e1 == IF e > Len(t) THEN Len(t) ELSE e
  IN  IF s >= e1 THEN << >> ELSE Slice(t, s, e1)

\* look.match(/^(a|b|...)/): the first alternative that look starts with, as
\* <<m[0]>>, or << >> for null
RECURSIVE MatchPrefix(_, _, _)
MatchPrefix(look, alts, k) ==
  IF k > Len(alts) THEN << >>
  ELSE IF StartsWithAt(look, 0, alts[k]) THEN <<alts[k]>>
  ELSE MatchPrefix(look, alts, k + 1)

\* lines 890 and 978
IsDelete(hit) == hit.replacement = << << >> >> /\ hit.delete_with_particle

\* lines 891 and 975
CanReplace(hit) == hit.replacement # << >> /\ hit.confidence >= MIN_PREVIEW_CONF

\* hits.sort((a, b) => a.start - b.start), a stable sort
SortByStart(hits) == SortedBy(hits, [k \in 1..Len(hits) |-> <<hits[k].start>>])

TextPart(value) == [kind |-> "text", value |-> value]

\* whether previewParts[previewParts.length - 1] ends with " " or "&gt;"
\* (lines 901-902): a text part is escaped, any other part ends with a tag
PrevPartEndsOpen(parts) ==
  /\ parts # << >>
  /\ parts[Len(parts)].kind = "text"
  /\ parts[Len(parts)].value # << >>
  /\ parts[Len(parts)].value[Len(parts[Len(parts)].value)] \in {32, 62}

\* lines 893-909: previewLastIndex after a deleted hit
DeleteEnd(t, hit, parts) ==
  LET m == MatchPrefix(JsSlice(t, hit.end, hit.end + 3), PARTICLE_PATTERN, 1)
  IN  IF m = << >> THEN hit.end
      ELSE LET last == hit.end + Len(m[1])
           IN  IF last < Len(t) /\ At(t, last) = 32 /\ PrevPartEndsOpen(parts)
               THEN last + 1 ELSE last

\* lines 910-919: the <ins> part of a replaced hit and what it consumes
InsPart(t, hit) ==
  LET m == MatchPrefix(JsSlice(t, hit.end, hit.end + 2), SPLICE_PARTICLES, 1)
  IN  IF m = << >>
      THEN [kind |-> "ins", value |-> hit.replacement[1], start |-> hit.start,
            last |-> hit.end]
      ELSE [kind |-> "ins",
            value |-> hit.replacement[1] \o chooseParticle(hit.replacement[1], m[1]),
            start |-> hit.start, last |-> hit.end + Len(m[1])]

\* lines 920-923: the <mark> part of a hit that is only highlighted
MarkPart(hit) ==
  [kind |-> "mark", value |-> hit.span, start |-> hit.start, last |-> hit.end]

\* lines 874-924: the loop over sortedHits, building previewParts
RECURSIVE PreviewLoop(_, _, _, _, _, _)
PreviewLoop(t, hits, i, viewLastIndex, previewLastIndex, parts) ==
  IF i > Len(hits)
  THEN IF previewLastIndex < Len(t)
       THEN Append(parts, TextPart(JsSlice(t, previewLastIndex, Len(t))))
       ELSE parts
  ELSE LET hit == hits[i] IN
       IF hit.start < viewLastIndex
       THEN PreviewLoop(t, hits, i + 1, viewLastIndex, previewLastIndex, parts)
       ELSE LET before ==
                  IF hit.start > previewLastIndex
                  THEN Append(parts, TextPart(JsSlice(t, previewLastIndex, hit.start)))
                  ELSE parts
            IN  IF IsDelete(hit) /\ hit.confidence >= MIN_PREVIEW_CONF
                THEN PreviewLoop(t, hits, i + 1, hit.end,
                                 DeleteEnd(t, hit, before),
                                 Append(before, [kind |-> "deleted", value |-> << >>,
                                                 start |-> hit.start,
                                                 last |-> DeleteEnd(t, hit, before)]))
                ELSE IF CanReplace(hit) /\ hit.replacement # << << >> >>
                THEN PreviewLoop(t, hits, i + 1, hit.end, InsPart(t, hit).last,
                                 Append(before, InsPart(t, hit)))
                ELSE PreviewLoop(t, hits, i + 1, hit.end, hit.end,
                                 Append(before, MarkPart(hit)))

\* lines 868-928: previewParts of renderResults(text, hits); a deleted hit,
\* which pushes no part, is kept as a part of kind "deleted"
PreviewParts(t, hits) == PreviewLoop(t, SortByStart(hits), 1, 0, 0, << >>)

\* lines 974-976: the hits applyAllReplacements substitutes, last one first
ReplacableHits(hits) ==
  LET kept == SelectSeq(hits, CanReplace)
  IN  SortedBy(kept, [k \in 1..Len(kept) |-> <<-kept[k].start>>])

\* lines 743-759
SpliceWithParticle(t, start, end, replacement) ==
  LET m == MatchPrefix(JsSlice(t, end, end + 2), SPLICE_PARTICLES, 1)
  IN  IF m = << >>
      THEN JsSlice(t, 0, start) \o replacement \o JsSlice(t, end, Len(t))
      ELSE JsSlice(t, 0, start) \o replacement \o chooseParticle(replacement, m[1])
             \o JsSlice(t, end + Len(m[1]), Len(t))

\* lines 977-988: the text after the splices of replacableHits[i..]
RECURSIVE ApplyLoop(_, _, _)
ApplyLoop(t, hits, i) ==
  IF i > Len(hits) THEN t
  ELSE LET hit == hits[i] IN
       IF IsDelete(hit)
       THEN LET m == MatchPrefix(JsSlice(t, hit.end, hit.end + 3), PARTICLE_PATTERN, 1)
                endPos == IF m = << >> THEN hit.end ELSE hit.end + Len(m[1])
            IN  ApplyLoop(JsSlice(t, 0, hit.start) \o JsSlice(t, endPos, Len(t)),
                          hits, i + 1)
       ELSE ApplyLoop(SpliceWithParticle(t, hit.start, hit.end, hit.replacement[1]),
                      hits, i + 1)


-----------------------------------------------------------------------------
(* Inputs                                                                  *)

MaxPieces == 4

\* the pieces texts are put together from: '유엔', 'UN', 'NASA', '(', ')', ' '
Pieces ==
  {<<50976, 50644>>,
   <<85, 78>>,
   <<78, 65, 83, 65>>,
   <<40>>,
   <<41>>,
   <<32>>}

\* section 8 of the specification: 유엔(UN) 보고서
ParenExampleText == <<50976, 50644, 40, 85, 78, 41, 32, 48372, 44256, 49436>>

\* 유엔(유엔기구)
NestedAliasText == <<50976, 50644, 40, 50976, 50644, 44592, 44396, 41>>

\* 유엔(UN) NASA AB CD 유엔기구
MixedOriginsText ==
  <<50976, 50644, 40, 85, 78, 41, 32, 78, 65, 83, 65, 32, 65, 66, 32, 67, 68, 32, 50976, 50644, 44592, 44396>>

\* 유엔() (UN)
LaterParenText == <<50976, 50644, 40, 41, 32, 40, 85, 78, 41>>

\* 토익(TOEIC)
DeletionParenText == <<53664, 51061, 40, 84, 79, 69, 73, 67, 41>>

\* 유엔(UN) AB
ParenAbbrevText == <<50976, 50644, 40, 85, 78, 41, 32, 65, 66>>

\* NASA 유엔기구
RuleAliasText == <<78, 65, 83, 65, 32, 50976, 50644, 44592, 44396>>

\* VS Code-AB
DroppedFuzzyText == <<86, 83, 32, 67, 111, 100, 101, 45, 65, 66>>

\* 토익점수
DeletionAliasText == <<53664, 51061, 51216, 49688>>

\* NASA1
NasaDigitText == <<78, 65, 83, 65, 49>>

\* further texts: '유엔을', '토익을 NASA로', 'NASA1', 'NASA_', '1NASA', 'AB', 'HAS', 'THE UN', 'un', '유엔기구', '주피터', '주피터(주피터)', '유엔(NASA UN)', '유엔 ( UN )', '유엔(유엔기구)', 'UN(유엔기구'
ExampleTexts ==
  {<<50976, 50644, 51012>>,
   <<53664, 51061, 51012, 32, 78, 65, 83, 65, 47196>>,
   <<78, 65, 83, 65, 49>>,
   <<78, 65, 83, 65, 95>>,
   <<49, 78, 65, 83, 65>>,
   <<65, 66>>,
   <<72, 65, 83>>,
   <<84, 72, 69, 32, 85, 78>>,
   <<117, 110>>,
   <<50976, 50644, 44592, 44396>>,
   <<51452, 54588, 53552>>,
   <<51452, 54588, 53552, 40, 51452, 54588, 53552, 41>>,
   <<50976, 50644, 40, 78, 65, 83, 65, 32, 85, 78, 41>>,
   <<50976, 50644, 32, 40, 32, 85, 78, 32, 41>>,
   <<50976, 50644, 40, 50976, 50644, 44592, 44396, 41>>,
   <<85, 78, 40, 50976, 50644, 44592, 44396>>,
   LaterParenText, DeletionParenText, ParenAbbrevText, RuleAliasText,
   DroppedFuzzyText, DeletionAliasText}

RECURSIVE PieceTexts(_)
PieceTexts(n) ==
  IF n = 0 THEN {<< >>}
  ELSE LET S == PieceTexts(n - 1) IN S \cup {s \o p : s \in S, p \in Pieces}

Texts ==
  PieceTexts(MaxPieces) \cup {ParenExampleText, MixedOriginsText} \cup ExampleTexts

\* a row of sim_matrix: similarity `score` to alias `best`, `second` to alias
\* `other`, 0 to the rest (hundredths)
SimRow(best, score, other, second) ==
  [k \in 1..Len(_ALIAS_RULES) |->
     IF k = best THEN score ELSE IF k = other THEN second ELSE 0]

\* what the embedder may answer for a candidate: a clear match of an alias of
\* the first rule, a match of an alias of a deletion rule that just meets the
\* margin, a match too close to a competitor, a match below the threshold
SimRows ==
  {SimRow(1, 95, 6, 50), SimRow(11, 100, 1, 94),
   SimRow(6, 90, 7, 86), SimRow(1, 85, 2, 0)}

-----------------------------------------------------------------------------
(* analyze (lines 1038-1056), one action per statement                     *)

NoBytes == [kind |-> "none"]

\* the rule table as regex_match reads it (lines 365-366)
RuleTable ==
  [r \in 1..Len(RULES) |-> [line |-> RULES[r].line, pattern |-> RULES[r].pattern]]

\* the module-level state once the module is imported: RULES (line 196),
\* _KNOWN_ABBREVS (380-388), _ALIAS_EXACT_MAP (356-361) and the rules of the
\* alias embedding index (353)
LoadedState ==
  [status |-> "serving",
   rules |-> RuleTable,
   known_abbrevs |-> _KNOWN_ABBREVS,
   alias_exact_map |-> [k \in 1..Len(AliasKeys) |-> [key |-> AliasKeys[k], rule |-> AliasRule(AliasKeys[k])]],
   alias_rules |-> _ALIAS_RULES]

Init ==
  /\ pc = "regex"
  /\ text \in Texts
  /\ embedder \in {"absent", "present", "failing"}
  /\ hits_rule = << >> /\ hits_alias = << >> /\ primary_hits = << >>
  /\ hits_semantic = << >> /\ known_hits = << >> /\ hits_unknown = << >>
  /\ final_hits = << >>
  /\ breq = NoBytes /\ bresp = NoBytes
  /\ calls = << >> /\ shared = LoadedState

RegexUnit ==
  /\ pc = "regex"
  /\ hits_rule' = regex_match(text)
  /\ pc' = "alias"
  /\ UNCHANGED <<text, embedder, hits_alias, primary_hits, hits_semantic,
                 known_hits, hits_unknown, final_hits, breq, bresp,
                 calls, shared>>

AliasUnit ==
  /\ pc = "alias"
  /\ hits_alias' = alias_exact_match(text)
  /\ pc' = "collapse"
  /\ UNCHANGED <<text, embedder, hits_rule, primary_hits, hits_semantic,
                 known_hits, hits_unknown, final_hits, breq, bresp,
                 calls, shared>>

CollapseUnit ==
  /\ pc = "collapse"
  /\ primary_hits' = collapse_parenthetical_duplicates(text, hits_rule \o hits_alias)
  /\ pc' = "semantic"
  /\ UNCHANGED <<text, embedder, hits_rule, hits_alias, hits_semantic,
                 known_hits, hits_unknown, final_hits, breq, bresp,
                 calls, shared>>

\* line 460: whether _embedder.encode raises
EncodeRaises(emb) == emb = "failing"

\* lines 454-460: whether semantic_match(text) raises; a call without
\* candidates returns before it uses the embedder
SemanticRaises(t, emb) ==
  /\ emb # "absent" /\ _ALIAS_RULES # << >>
  /\ _get_semantic_candidates(t) # << >>
  /\ EncodeRaises(emb)

SemanticUnit ==
  /\ pc = "semantic"
  /\ ~SemanticRaises(text, embedder)
  /\ \E sim \in [1..Len(_get_semantic_candidates(text)) -> SimRows] :
       hits_semantic' = semantic_match(text, embedder, sim)
  /\ pc' = "merge_known"
  /\ UNCHANGED <<text, embedder, hits_rule, hits_alias, primary_hits,
                 known_hits, hits_unknown, final_hits, breq, bresp,
                 calls, shared>>

\* line 1048 when semantic_match raises: analyze has no handler, the
\* exception leaves it and the request is answered with an error
SemanticError ==
  /\ pc = "semantic"
  /\ SemanticRaises(text, embedder)
  /\ pc' = "error"
  /\ UNCHANGED <<text, embedder, hits_rule, hits_alias, primary_hits,
                 hits_semantic, known_hits, hits_unknown, final_hits, breq, bresp,
                 calls, shared>>

MergeKnown ==
  /\ pc = "merge_known"
  /\ known_hits' = merge_hits(<<primary_hits, hits_semantic>>)
  /\ pc' = "unknown"
  /\ UNCHANGED <<text, embedder, hits_rule, hits_alias, primary_hits,
                 hits_semantic, hits_unknown, final_hits, breq, bresp,
                 calls, shared>>

DetectUnknown ==
  /\ pc = "unknown"
  /\ hits_unknown' = detect_unknown_abbreviations(text, known_hits)
  /\ pc' = "merge_final"
  /\ UNCHANGED <<text, embedder, hits_rule, hits_alias, primary_hits,
                 hits_semantic, known_hits, final_hits, breq, bresp,
                 calls, shared>>

FinalMerge ==
  /\ pc = "merge_final"
  /\ final_hits' = merge_hits(<<known_hits, hits_unknown>>)
  /\ pc' = "done"
  /\ UNCHANGED <<text, embedder, hits_rule, hits_alias, primary_hits,
                 hits_semantic, known_hits, hits_unknown, breq, bresp,
                 calls, shared>>

\* lines 1009-1010: the page shows the hits analyze returned
Render ==
  /\ pc = "done"
  /\ bresp' = [kind |-> "render", preview |-> PreviewParts(text, final_hits)]
  /\ pc' = "rendered"
  /\ UNCHANGED <<text, embedder, breq, hits_rule, hits_alias, primary_hits,
                 hits_semantic, known_hits, hits_unknown, final_hits,
                 calls, shared>>

\* applyAllReplacements (lines 972-989) up to the splices; the button is
\* enabled when a hit can be replaced (lines 1013-1016)
ApplyAll ==
  /\ pc = "rendered"
  /\ ReplacableHits(final_hits) # << >>
  /\ bresp' = [kind |-> "applyAll",
               replaced |-> ReplacableHits(final_hits),
               text |-> ApplyLoop(text, ReplacableHits(final_hits), 1)]
  /\ pc' = "applied"
  /\ UNCHANGED <<text, embedder, breq, hits_rule, hits_alias, primary_hits,
                 hits_semantic, known_hits, hits_unknown, final_hits,
                 calls, shared>>

Next ==
  \/ RegexUnit \/ AliasUnit \/ CollapseUnit \/ SemanticUnit \/ SemanticError
  \/ MergeKnown \/ DetectUnknown \/ FinalMerge
  \/ Render \/ ApplyAll

Spec == Init /\ [][Next]_vars

-----------------------------------------------------------------------------
(* Byte / Unicode analyzer                                                 *)

\* Utf8OfCodepoint with three bytes for every codepoint above U+007F
Utf8ThreeBytesAboveAscii(c) ==
  IF c < 128 THEN <<c>>
  ELSE <<224 + ((c \div 4096) % 16), 128 + ((c \div 64) % 64), 128 + (c % 64)>>

\* Utf8OfCodepoint with two bytes for every codepoint of the basic plane
Utf8TwoBytesPerBmpChar(c) ==
  IF c < 128 THEN <<c>>
  ELSE IF c < 65536 THEN <<192 + ((c \div 64) % 32), 128 + (c % 64)>>
  ELSE <<240 + (c \div 262144), 128 + ((c \div 4096) % 64),
         128 + ((c \div 64) % 64), 128 + (c % 64)>>

\* str.encode("utf-8") of one codepoint
Utf8OfCodepoint(c) ==
  IF c < 128 THEN <<c>>
  ELSE IF c < 2048 THEN <<192 + (c \div 64), 128 + (c % 64)>>
  ELSE IF c < 65536
    THEN <<224 + (c \div 4096), 128 + ((c \div 64) % 64), 128 + (c % 64)>>
  ELSE <<240 + (c \div 262144), 128 + ((c \div 4096) % 64),
         128 + ((c \div 64) % 64), 128 + (c % 64)>>

\* text.encode("utf-8")
Utf8Encode(t) == Concat([k \in 1..Len(t) |-> Utf8OfCodepoint(t[k])])

\* line 116
utf8_byte_len(t) == Len(Utf8Encode(t))

HexDigits == <<"0", "1", "2", "3", "4", "5", "6", "7",
               "8", "9", "A", "B", "C", "D", "E", "F">>

\* format(n, "X")
RECURSIVE HexString(_)
HexString(n) ==
  IF n < 16 THEN HexDigits[n + 1]
  ELSE HexString(n \div 16) \o HexDigits[(n % 16) + 1]

\* zero padding to width w
RECURSIVE ZeroPad(_, _)
ZeroPad(s, w) == IF Len(s) >= w THEN s ELSE ZeroPad("0" \o s, w)

\* line 136: f"U+{cp:04X}"
CodepointString(cp) == "U+" \o ZeroPad(HexString(cp), 4)

\* SuspiciousChar with a 1-based index
SuspiciousCharOneBased(i, cp) == [index |-> i + 1, codepoint |-> CodepointString(cp)]

\* lines 133-139 (char_repr, name and unicode_category are not modelled)
SuspiciousChar(i, cp) == [index |-> i, codepoint |-> CodepointString(cp)]

\* line 130: whether the scan records the codepoint
IsSuspicious(cp) == cp \in SUSPICIOUS_CODEPOINTS

\* lines 127-139: the scan, from index i
RECURSIVE SuspiciousFrom(_, _)
SuspiciousFrom(t, i) ==
  IF i >= Len(t) THEN << >>
  ELSE (IF IsSuspicious(At(t, i)) THEN <<SuspiciousChar(i, At(t, i))>> ELSE << >>)
       \o SuspiciousFrom(t, i + 1)

\* text.count(ch) for a single character
CountOf(t, c) == Cardinality({k \in 1..Len(t) : t[k] = c})

\* lines 119-149
analyze_bytes(t) ==
  [utf8_bytes |-> utf8_byte_len(t),
   char_count_including_spaces |-> Len(t),
   char_count_excluding_spaces |-> Cardinality({k \in 1..Len(t) : ~IsSpace(t[k])}),
   newline_lf |-> CountOf(t, 10),
   newline_cr |-> CountOf(t, 13),
   tab |-> CountOf(t, 9),
   suspicious |-> SuspiciousFrom(t, 0)]

\* str.replace(old, new): the non-overlapping occurrences, left to right
RECURSIVE Replace(_, _, _)
Replace(t, old, new) ==
  IF t = << >> THEN << >>
  ELSE IF StartsWithAt(t, 0, old)
       THEN new \o Replace(SubSeq(t, Len(old) + 1, Len(t)), old, new)
       ELSE <<Head(t)>> \o Replace(Tail(t), old, new)

\* newline_mode.upper()
UpperMode(m) == IF m = "crlf" THEN "CRLF" ELSE IF m = "lf" THEN "LF" ELSE m

\* UnifyNewlines that writes CRLF whatever the mode
UnifyNewlinesAlwaysCRLF(t, newline_mode) ==
  Replace(Replace(Replace(t, <<13, 10>>, <<10>>), <<13>>, <<10>>), <<10>>, <<13, 10>>)

\* UnifyNewlines without the replacement of a lone CR
UnifyNewlinesKeepLoneCR(t, newline_mode) ==
  LET lf == Replace(t, <<13, 10>>, <<10>>)
  IN  IF UpperMode(newline_mode) = "CRLF" THEN Replace(lf, <<10>>, <<13, 10>>) ELSE lf

\* lines 165-167
UnifyNewlines(t, newline_mode) ==
  LET lf == Replace(Replace(t, <<13, 10>>, <<10>>), <<13>>, <<10>>)
  IN  IF UpperMode(newline_mode) = "CRLF" THEN Replace(lf, <<10>>, <<13, 10>>) ELSE lf

\* lines 170-173
ReplaceNbsp(t) ==
  Replace(Replace(Replace(t, <<160>>, <<32>>), <<8239>>, <<32>>), <<12288>>, <<32>>)

\* lines 176-178
RemoveZeroWidth(t) ==
  Replace(Replace(Replace(Replace(t, <<8203>>, << >>), <<8204>>, << >>),
                  <<8205>>, << >>), <<65279>>, << >>)

\* lines 152-180
normalize_for_neis(t, newline_mode, replace_nbsp, remove_zero_width) ==
  LET a == UnifyNewlines(t, newline_mode)
      b == IF replace_nbsp THEN ReplaceNbsp(a) ELSE a
  IN  IF remove_zero_width THEN RemoveZeroWidth(b) ELSE b

MaxLen == 3

\* CR, LF, ZWSP, NBSP, "a", "한"
ByteAlphabet == {13, 10, 8203, 160, 97, 54620}

RECURSIVE TextsUpTo(_)
TextsUpTo(n) ==
  IF n = 0 THEN {<< >>}
  ELSE LET S == TextsUpTo(n - 1) IN S \cup {Append(s, c) : s \in S, c \in ByteAlphabet}

\* "한글 ab" ZWSP "c": U+200B at index 5
ZwspExampleText == <<54620, 44544, 32, 97, 98, 8203, 99>>

\* further texts: TAB and BOM, ideographic and narrow no-break space, U+1F600
ByteExampleTexts ==
  {<<9, 97, 65279>>, <<12288, 8239, 97>>, <<128512, 97>>,
   <<13, 8203, 10, 97, 13, 13, 10>>}

ByteTexts == TextsUpTo(MaxLen) \cup {ZwspExampleText} \cup ByteExampleTexts

InitBytes ==
  /\ pc = "bytes"
  /\ text \in ByteTexts
  /\ embedder = "absent"
  /\ hits_rule = << >> /\ hits_alias = << >> /\ primary_hits = << >>
  /\ hits_semantic = << >> /\ known_hits = << >> /\ hits_unknown = << >>
  /\ final_hits = << >>
  /\ breq = NoBytes /\ bresp = NoBytes
  /\ calls = << >> /\ shared = LoadedState

\* byte_count (lines 1059-1080)
ByteCount ==
  /\ pc = "bytes"
  /\ \E normalize \in BOOLEAN, newline_mode \in {"LF", "CRLF"} :
       /\ breq' = [kind |-> "byte_count", normalize |-> normalize,
                   newline_mode |-> newline_mode]
       /\ bresp' =
            [kind |-> "byte_count",
             result |-> analyze_bytes(text),
             normalized_text |->
               IF normalize
               THEN <<normalize_for_neis(text, newline_mode, TRUE, TRUE)>>
               ELSE << >>,
             normalized_utf8_bytes |->
               IF normalize
               THEN <<utf8_byte_len(normalize_for_neis(text, newline_mode, TRUE, TRUE))>>
               ELSE << >>]
  /\ pc' = "counted"
  /\ UNCHANGED <<text, embedder, hits_rule, hits_alias, primary_hits,
                 hits_semantic, known_hits, hits_unknown, final_hits,
                 calls, shared>>

\* a call of normalize_for_neis on the text
Normalize ==
  /\ pc = "bytes"
  /\ \E newline_mode \in {"LF", "CRLF"}, replace_nbsp \in BOOLEAN,
        remove_zero_width \in BOOLEAN :
       /\ breq' = [kind |-> "normalize", newline_mode |-> newline_mode,
                   replace_nbsp |-> replace_nbsp,
                   remove_zero_width |-> remove_zero_width]
       /\ bresp' = [kind |-> "normalize", calls |-> 1,
                    out |-> normalize_for_neis(text, newline_mode, replace_nbsp,
                                               remove_zero_width),
                    previous |-> text]
  /\ pc' = "normalized"
  /\ UNCHANGED <<text, embedder, hits_rule, hits_alias, primary_hits,
                 hits_semantic, known_hits, hits_unknown, final_hits,
                 calls, shared>>

\* a call of normalize_for_neis, with the same settings, on its own result
NormalizeAgain ==
  /\ pc = "normalized"
  /\ bresp.calls = 1
  /\ bresp' = [bresp EXCEPT
                 !.calls = 2,
                 !.previous = bresp.out,
                 !.out = normalize_for_neis(bresp.out, breq.newline_mode,
                                            breq.replace_nbsp, breq.remove_zero_width)]
  /\ UNCHANGED <<pc, text, embedder, breq, hits_rule, hits_alias, primary_hits,
                 hits_semantic, known_hits, hits_unknown, final_hits,
                 calls, shared>>

NextBytes == ByteCount \/ Normalize \/ NormalizeAgain

SpecBytes == InitBytes /\ [][NextBytes]_vars

-----------------------------------------------------------------------------
(* merge_hits on arbitrary candidate lists                                 *)

MaxStart == 1
MaxSpan == 2
MaxCandidates == 2

\* a text of "X" long enough for every candidate
MergeText == [k \in 1..(MaxStart + MaxSpan) |-> 88]

\* a candidate hit of the given start, length and confidence
CandidateHit(start, len, confidence) ==
  Hit(Slice(MergeText, start, start + len), <<76>>, << >>, confidence, 0,
      start, start + len, FALSE)

CandidateHits ==
  {CandidateHit(s, n, c) : s \in 0..MaxStart, n \in 1..MaxSpan, c \in {8500, 9400}}

RECURSIVE ListsUpTo(_, _)
ListsUpTo(S, n) ==
  IF n = 0 THEN {<< >>}
  ELSE LET L == ListsUpTo(S, n - 1) IN L \cup {Append(l, h) : l \in L, h \in S}

\* the state before the call merge_hits(primary_hits, hits_semantic) of line
\* 1050, for any two candidate lists
InitMerge ==
  /\ pc = "merge_known"
  /\ text = MergeText
  /\ embedder = "absent"
  /\ hits_rule = << >> /\ hits_alias = << >>
  /\ primary_hits \in ListsUpTo(CandidateHits, MaxCandidates)
  /\ hits_semantic \in ListsUpTo(CandidateHits, 1)
  /\ known_hits = << >> /\ hits_unknown = << >> /\ final_hits = << >>
  /\ breq = NoBytes /\ bresp = NoBytes
  /\ calls = << >> /\ shared = LoadedState

NextMerge == MergeKnown

SpecMerge == InitMerge /\ [][NextMerge]_vars

-----------------------------------------------------------------------------
(* Calls of chooseParticle                                                 *)

\* 학교
SchoolWord == <<54617, 44368>>
\* 이동
MovingWord == <<51060, 46041>>

\* every final consonant once (가 .. 갛), and further words: '학교', '이동', '포털사이트', '국제기구', '서울', '대학', '', 'UN', '학교 ', ' ', '서울U+FEFF', '학교' U+1F600, '한글A'
BaseWords ==
  {<<c>> : c \in 44032..44059} \cup
  {<<54617, 44368>>,
   <<51060, 46041>>,
   <<54252, 53560, 49324, 51060, 53944>>,
   <<44397, 51228, 44592, 44396>>,
   <<49436, 50872>>,
   <<45824, 54617>>,
   <<>>,
   <<85, 78>>,
   <<54617, 44368, 32>>,
   <<32>>,
   <<49436, 50872, 65279>>,
   <<54617, 44368, 128512>>,
   <<54620, 44544, 65>>}

\* the closed set, and particles outside it: '에', '도', '에서', ''
Particles ==
  {P_RO, P_EURO, P_WA, P_GWA, P_NEUN, P_EUN, P_GA, P_I, P_REUL, P_EUL} \cup
  {<<50640>>, <<46020>>, <<50640, 49436>>, <<>>}

InitParticle ==
  /\ pc = "particle"
  /\ text = << >>
  /\ embedder = "absent"
  /\ hits_rule = << >> /\ hits_alias = << >> /\ primary_hits = << >>
  /\ hits_semantic = << >> /\ known_hits = << >> /\ hits_unknown = << >>
  /\ final_hits = << >>
  /\ \E baseWord \in BaseWords, particle \in Particles :
       breq = [kind |-> "chooseParticle", baseWord |-> baseWord,
               particle |-> particle]
  /\ bresp = NoBytes
  /\ calls = << >> /\ shared = LoadedState

\* a call chooseParticle(baseWord, particle), as at lines 747 and 915
ChooseParticle ==
  /\ pc = "particle"
  /\ bresp' = [kind |-> "chooseParticle",
               result |-> chooseParticle(breq.baseWord, breq.particle)]
  /\ pc' = "chosen"
  /\ UNCHANGED <<text, embedder, breq, hits_rule, hits_alias, primary_hits,
                 hits_semantic, known_hits, hits_unknown, final_hits,
                 calls, shared>>

NextParticle == ChooseParticle

SpecParticle == InitParticle /\ [][NextParticle]_vars

-----------------------------------------------------------------------------
(* Startup with a rule whose pattern is malformed.                         *)
(* The module compiles no pattern at import: lines 380-388 read each       *)
(* pattern as the subject string of re.findall, and regex_match hands it   *)
(* to re.finditer (line 367), which compiles it when a request is served.  *)

\* the escapes \b \B \A \Z are assertions, which a quantifier cannot follow
IsAssertEscape(c) == c \in {98, 66, 65, 90}

\* the escapes re accepts among those of one letter and no argument
IsKnownEscape(c) ==
  \/ ~(IsAsciiLetter(c) \/ IsDigit(c))
  \/ IsAssertEscape(c)
  \/ c \in {100, 68, 115, 83, 119, 87, 97, 102, 110, 114, 116, 118}

\* the state of the scan of a pattern: i is the next offset, depth counts
\* the open groups, prev is what a quantifier at i would apply to, ok is
\* FALSE once re.compile would raise
ScanState(i, depth, prev, ok) ==
  [i |-> i, depth |-> depth, prev |-> prev, ok |-> ok]

\* one item of the pattern at s.i, for patterns made of literals, escapes,
\* ( ) (?: ) | and ?
ScanItem(p, s) ==
  LET i == s.i
      c == At(p, i)
  IN
    CASE c = 92 ->
           IF i + 1 < Len(p) /\ IsKnownEscape(At(p, i + 1))
           THEN ScanState(i + 2, s.depth,
                  IF IsAssertEscape(At(p, i + 1)) THEN "assert" ELSE "atom", TRUE)
           ELSE ScanState(Len(p), s.depth, s.prev, FALSE)
      [] c = 40 ->
           IF i + 1 < Len(p) /\ At(p, i + 1) = 63
           THEN IF i + 2 < Len(p) /\ At(p, i + 2) = 58
                THEN ScanState(i + 3, s.depth + 1, "none", TRUE)
                ELSE ScanState(Len(p), s.depth, s.prev, FALSE)
           ELSE ScanState(i + 1, s.depth + 1, "none", TRUE)
      [] c = 41 ->
           IF s.depth > 0
           THEN ScanState(i + 1, s.depth - 1, "atom", TRUE)
           ELSE ScanState(Len(p), s.depth, s.prev, FALSE)
      [] c = 124 -> ScanState(i + 1, s.depth, "none", TRUE)
      [] c = 63 ->
           IF s.prev \in {"atom", "quant"}
           THEN ScanState(i + 1, s.depth,
                  IF s.prev = "atom" THEN "quant" ELSE "lazy", TRUE)
           ELSE ScanState(Len(p), s.depth, s.prev, FALSE)
      [] OTHER -> ScanState(i + 1, s.depth, "atom", TRUE)

\* the scan from state s up to offset e, by halves
RECURSIVE ScanTo(_, _, _)
ScanTo(p, s, e) ==
  IF s.i >= e \/ ~s.ok THEN s
  ELSE IF e - s.i <= 1 THEN ScanItem(p, s)
  ELSE ScanTo(p, ScanTo(p, s, s.i + (e - s.i) \div 2), e)

\* re.compile(p) succeeds
IsValidPattern(p) ==
  LET s == ScanTo(p, ScanState(0, 0, "none", TRUE), Len(p))
  IN  s.ok /\ s.depth = 0

\* malformed patterns: (UN  UN)  ?UN  UN\  (?UN)  UN???  \bUN\b?
MalformedPatterns ==
  {<<40, 85, 78>>, <<85, 78, 41>>, <<63, 85, 78>>, <<85, 78, 92>>,
   <<40, 63, 85, 78, 41>>, <<85, 78, 63, 63, 63>>,
   <<92, 98, 85, 78, 92, 98, 63>>}

\* RULES with one more entry, placed before entry k of the table
TableWith(rule, k) ==
  SubSeq(RuleTable, 1, k - 1) \o <<rule>> \o SubSeq(RuleTable, k, Len(RuleTable))

\* the rule tables the module is started with
StartupTables ==
  {RuleTable} \cup
  {TableWith([line |-> 302, pattern |-> p], k) :
     p \in MalformedPatterns, k \in 1..(Len(RuleTable) + 1)}

\* the patterns of the startup tables
StartupPatterns ==
  {RuleTable[r].pattern : r \in 1..Len(RuleTable)} \cup MalformedPatterns

\* lines 383-387: the abbreviations the two findall calls take from a pattern
PatternAbbrevs ==
  [p \in StartupPatterns |-> FindBounded(p, 0) \cup FindDelimited(p, 0)]

\* lines 380-388 over a rule table
KnownAbbrevsOf(rules) ==
  UNION {PatternAbbrevs[rules[r].pattern] : r \in 1..Len(rules)}

StartupTexts == ExampleTexts

InitStartup ==
  /\ pc = "import"
  /\ text \in StartupTexts
  /\ embedder \in {"absent", "present"}
  /\ hits_rule = << >> /\ hits_alias = << >> /\ primary_hits = << >>
  /\ hits_semantic = << >> /\ known_hits = << >> /\ hits_unknown = << >>
  /\ final_hits = << >>
  /\ breq = NoBytes /\ bresp = NoBytes
  /\ calls = << >>
  /\ \E rules \in StartupTables :
       shared = [status |-> "importing", rules |-> rules,
                 known_abbrevs |-> {}, alias_exact_map |-> << >>,
                 alias_rules |-> << >>]

\* module import, lines 196-388: the alias indexes and _KNOWN_ABBREVS are
\* built from the table; no statement compiles a pattern, so none raises
Import ==
  /\ pc = "import"
  /\ shared' = [shared EXCEPT
       !.status = "serving",
       !.known_abbrevs = KnownAbbrevsOf(shared.rules),
       !.alias_exact_map = LoadedState.alias_exact_map,
       !.alias_rules = IF embedder = "absent" THEN << >> ELSE _ALIAS_RULES]
  /\ pc' = "regex"
  /\ UNCHANGED <<text, embedder, hits_rule, hits_alias, primary_hits,
                 hits_semantic, known_hits, hits_unknown, final_hits,
                 breq, bresp, calls>>

\* the first statement of analyze (line 1041) on a served request: every
\* pattern of the table compiles
RegexRequest ==
  /\ pc = "regex" /\ shared.status = "serving"
  /\ \A r \in 1..Len(shared.rules) : IsValidPattern(shared.rules[r].pattern)
  /\ hits_rule' = regex_match(text)
  /\ pc' = "alias"
  /\ UNCHANGED <<text, embedder, hits_alias, primary_hits, hits_semantic,
                 known_hits, hits_unknown, final_hits, breq, bresp,
                 calls, shared>>

\* line 367: re.finditer raises re.error on the malformed pattern and the
\* exception leaves regex_match and analyze
RegexError ==
  /\ pc = "regex" /\ shared.status = "serving"
  /\ \E r \in 1..Len(shared.rules) : ~IsValidPattern(shared.rules[r].pattern)
  /\ pc' = "error"
  /\ UNCHANGED <<text, embedder, hits_rule, hits_alias, primary_hits,
                 hits_semantic, known_hits, hits_unknown, final_hits,
                 breq, bresp, calls, shared>>

NextStartup == Import \/ RegexRequest \/ RegexError

SpecStartup == InitStartup /\ [][NextStartup]_vars

-----------------------------------------------------------------------------
(* Concurrent requests.  The server runs analyze and byte_count in worker  *)
(* threads; every name a statement of analyze assigns is a local of its    *)
(* call, and the module-level names are only read.                         *)

MaxCalls == 2

\* the texts of the concurrent calls
ConcurrentTexts == {ParenAbbrevText, RuleAliasText}

\* the text of the byte_count request: 유 CR LF
ConcurrentByteText == <<50976, 13, 10>>

\* the embedder is a function of its input: each candidate of a text gets the
\* same row of similarities whenever it is encoded
Encoded(t) ==
  [k \in 1..Len(_get_semantic_candidates(t)) |-> SimRow(1, 95, 6, 50)]

\* the locals of a call of analyze that has not run a statement yet
NewCall(t) ==
  [pc |-> "regex", text |-> t, hits_rule |-> << >>, hits_alias |-> << >>,
   primary_hits |-> << >>, hits_semantic |-> << >>, known_hits |-> << >>,
   hits_unknown |-> << >>, final_hits |-> << >>]

\* the frame a statement of call c reads its local names from: its own
LocalsOfFirstCall(cs, c) == cs[1]

Locals(cs, c) == cs[c]

\* analyze (lines 1041-1054) run alone on a text
AnalyzeAlone(t, emb) ==
  LET hr == regex_match(t)
      ha == alias_exact_match(t)
      ph == collapse_parenthetical_duplicates(t, hr \o ha)
      hs == semantic_match(t, emb, Encoded(t))
      kh == merge_hits(<<ph, hs>>)
      hu == detect_unknown_abbreviations(t, kh)
  IN  merge_hits(<<kh, hu>>)

InitConcurrent ==
  /\ pc = "bytes"
  /\ text = ConcurrentByteText
  /\ embedder \in {"absent", "present"}
  /\ hits_rule = << >> /\ hits_alias = << >> /\ primary_hits = << >>
  /\ hits_semantic = << >> /\ known_hits = << >> /\ hits_unknown = << >>
  /\ final_hits = << >>
  /\ breq = NoBytes /\ bresp = NoBytes
  /\ \E ts \in [1..MaxCalls -> ConcurrentTexts] :
       calls = [c \in 1..MaxCalls |-> NewCall(ts[c])]
  /\ shared = LoadedState

CallRegexUnit(c) ==
  LET l == Locals(calls, c) IN
  /\ l.pc = "regex"
  /\ calls' = [calls EXCEPT ![c] =
       [@ EXCEPT !.hits_rule = regex_match(l.text), !.pc = "alias"]]

CallAliasUnit(c) ==
  LET l == Locals(calls, c) IN
  /\ l.pc = "alias"
  /\ calls' = [calls EXCEPT ![c] =
       [@ EXCEPT !.hits_alias = alias_exact_match(l.text), !.pc = "collapse"]]

CallCollapseUnit(c) ==
  LET l == Locals(calls, c) IN
  /\ l.pc = "collapse"
  /\ calls' = [calls EXCEPT ![c] =
       [@ EXCEPT !.primary_hits =
                   collapse_parenthetical_duplicates(l.text, l.hits_rule \o l.hits_alias),
                 !.pc = "semantic"]]

CallSemanticUnit(c) ==
  LET l == Locals(calls, c) IN
  /\ l.pc = "semantic"
  /\ calls' = [calls EXCEPT ![c] =
       [@ EXCEPT !.hits_semantic = semantic_match(l.text, embedder, Encoded(l.text)),
                 !.pc = "merge_known"]]

CallMergeKnown(c) ==
  LET l == Locals(calls, c) IN
  /\ l.pc = "merge_known"
  /\ calls' = [calls EXCEPT ![c] =
       [@ EXCEPT !.known_hits = merge_hits(<<l.primary_hits, l.hits_semantic>>),
                 !.pc = "unknown"]]

CallDetectUnknown(c) ==
  LET l == Locals(calls, c) IN
  /\ l.pc = "unknown"
  /\ calls' = [calls EXCEPT ![c] =
       [@ EXCEPT !.hits_unknown = detect_unknown_abbreviations(l.text, l.known_hits),
                 !.pc = "merge_final"]]

CallFinalMerge(c) ==
  LET l == Locals(calls, c) IN
  /\ l.pc = "merge_final"
  /\ calls' = [calls EXCEPT ![c] =
       [@ EXCEPT !.final_hits = merge_hits(<<l.known_hits, l.hits_unknown>>),
                 !.pc = "done"]]

\* one statement of one of the calls of analyze; nothing but the locals of
\* the call is assigned
CallStep(c) ==
  /\ \/ CallRegexUnit(c) \/ CallAliasUnit(c) \/ CallCollapseUnit(c)
     \/ CallSemanticUnit(c) \/ CallMergeKnown(c) \/ CallDetectUnknown(c)
     \/ CallFinalMerge(c)
  /\ UNCHANGED <<pc, text, embedder, hits_rule, hits_alias, primary_hits,
                 hits_semantic, known_hits, hits_unknown, final_hits,
                 breq, bresp, shared>>

AnalyzeStep == \E c \in DOMAIN calls : CallStep(c)

\* a statement of a call of analyze, or a byte_count request served meanwhile
NextConcurrent == AnalyzeStep \/ ByteCount

SpecConcurrent == InitConcurrent /\ [][NextConcurrent]_vars

-----------------------------------------------------------------------------
(* merge_hits on reordered candidate lists                                 *)

MaxReordered == 2

\* a candidate hit of the given start, length, confidence and label
LabelledHit(start, len, confidence, label) ==
  Hit([k \in 1..len |-> 88], label, << <<label>> >>, confidence, 0,
      start, start + len, FALSE)

\* candidates with ties: the first two differ in label and replacement only
ReorderCandidates ==
  {LabelledHit(0, 2, 9400, 76), LabelledHit(0, 2, 9400, 77),
   LabelledHit(0, 1, 9400, 76), LabelledHit(1, 1, 8500, 76),
   LabelledHit(0, 2, 8500, 76), LabelledHit(1, 2, 9400, 77)}

\* the state before a call merge_hits(A, B)
InitReorder ==
  /\ pc = "merge_known"
  /\ text = <<88, 88, 88>>
  /\ embedder = "absent"
  /\ hits_rule = << >> /\ hits_alias = << >>
  /\ primary_hits \in ListsUpTo(ReorderCandidates, MaxReordered)
  /\ hits_semantic \in ListsUpTo(ReorderCandidates, 1)
  /\ known_hits = << >> /\ hits_unknown = << >> /\ final_hits = << >>
  /\ breq = NoBytes /\ bresp = NoBytes
  /\ calls = << >> /\ shared = LoadedState

\* the permutations of 1..n
Orderings(n) ==
  {p \in [1..n -> 1..n] : \A i \in 1..n, j \in 1..n : p[i] = p[j] => i = j}

\* a second call of merge_hits on the same candidates: the first list
\* permuted, the two lists possibly exchanged
MergeReordered ==
  /\ pc = "unknown"
  /\ \E p \in Orderings(Len(primary_hits)), exchanged \in BOOLEAN :
       LET A == [k \in 1..Len(primary_hits) |-> primary_hits[p[k]]]
           groups == IF exchanged THEN <<hits_semantic, A>>
                     ELSE <<A, hits_semantic>>
       IN  /\ breq' = [kind |-> "merge_hits", hit_groups |-> groups]
           /\ final_hits' = merge_hits(groups)
  /\ pc' = "reordered"
  /\ UNCHANGED <<text, embedder, hits_rule, hits_alias, primary_hits,
                 hits_semantic, known_hits, hits_unknown, bresp,
                 calls, shared>>

NextReorder == MergeKnown \/ MergeReordered

SpecReorder == InitReorder /\ [][NextReorder]_vars

-----------------------------------------------------------------------------
(* Properties of analyze                                                   *)

\* C1: the hit list returned by analyze is sorted ascending by start and is
\* non-overlapping: every hit ends at or before the start of the next one.
C1_SortedNonOverlapping ==
  pc = "done" =>
    \A k \in 1..(Len(final_hits) - 1) :
      /\ final_hits[k].start <= final_hits[k + 1].start
      /\ final_hits[k].end <= final_hits[k + 1].start

\* analyze has returned two hits or more after merge_hits dropped a candidate
C1_Witness ==
  /\ pc = "done"
  /\ Len(final_hits) >= 2
  /\ Len(known_hits) < Len(primary_hits) + Len(hits_semantic)

\* C2: for every hit returned by analyze, whatever its origin,
\* text[start:end] = span and 0 <= start < end <= len(text), in codepoints.
C2_SpanIsSlice ==
  pc = "done" =>
    \A k \in 1..Len(final_hits) :
      LET h == final_hits[k] IN
        /\ 0 <= h.start /\ h.start < h.end /\ h.end <= Len(text)
        /\ h.span = SubSeq(text, h.start + 1, h.end)

\* analyze has returned, for one text, a combined hit of the parenthetical
\* collapse, a rule hit, an alias hit, a fuzzy hit and an unknown-abbreviation
\* hit
C2_Witness ==
  /\ pc = "done" /\ text = MixedOriginsText
  /\ \E k \in 1..Len(final_hits) :
       final_hits[k].start = 0 /\ final_hits[k].end = 6
  /\ \E k \in 1..Len(final_hits) :
       \E j \in 1..Len(hits_rule) : hits_rule[j] = final_hits[k]
  /\ \E k \in 1..Len(final_hits) :
       \E j \in 1..Len(hits_alias) : hits_alias[j] = final_hits[k]
  /\ \E k \in 1..Len(final_hits) :
       \E j \in 1..Len(hits_semantic) : hits_semantic[j] = final_hits[k]
  /\ \E k \in 1..Len(final_hits) : final_hits[k].label = UNKNOWN_LABEL

\* C4: for the text 유엔(UN) 보고서 analyze returns exactly one hit, the
\* combined hit of span 유엔(UN), start 0, end 6, label 기관명, replacement
\* 국제기구, and no separate hit for 유엔 or UN, of a rule or of the
\* unknown-abbreviation pass.
C4_ParenExampleOneHit ==
  (pc = "done" /\ text = ParenExampleText) =>
    /\ Len(final_hits) = 1
    /\ final_hits[1].span = <<50976, 50644, 40, 85, 78, 41>>
    /\ final_hits[1].start = 0 /\ final_hits[1].end = 6
    /\ final_hits[1].label = <<44592, 44288, 47749>>
    /\ final_hits[1].replacement = << <<44397, 51228, 44592, 44396>> >>

\* analyze has answered for 유엔(UN) 보고서 with the embedder proposing a fuzzy
\* hit as well
C4_Witness ==
  /\ pc = "done" /\ text = ParenExampleText
  /\ Len(hits_rule) = 2
  /\ hits_semantic # << >>

\* C5: whenever a candidate H is followed, after optional whitespace, by "("
\* and a candidate I lies wholly inside that parenthesis, has the label and
\* the non-empty replacement of H and is followed, after optional whitespace,
\* by ")", the output of collapse_parenthetical_duplicates has one combined
\* hit from H.start through that ")" (confidence the larger of the two,
\* source of H) and has neither H nor I.
C5_EveryInnerHitCollapsed ==
  pc \in {"semantic", "merge_known", "unknown", "merge_final", "done"} =>
    LET hits == hits_rule \o hits_alias
        open(h) == SkipSpaces(text, h.end)
        close(h) == SkipSpaces(text, h.end)
        In(h) == \E k \in 1..Len(primary_hits) : primary_hits[k] = h
    IN  \A a \in 1..Len(hits), b \in 1..Len(hits) :
          LET H == hits[a]
              I == hits[b]
          IN  ( /\ open(H) < Len(text) /\ At(text, open(H)) = 40
                /\ I.start > open(H)
                /\ close(I) < Len(text) /\ At(text, close(I)) = 41
                /\ \A p \in (open(H) + 1)..(I.end - 1) : At(text, p) # 41
                /\ H.label = I.label
                /\ H.replacement = I.replacement
                /\ H.replacement # << >> /\ H.replacement # << << >> >> )
              => /\ \E k \in 1..Len(primary_hits) :
                      /\ primary_hits[k].start = H.start
                      /\ primary_hits[k].end = close(I) + 1
                      /\ primary_hits[k].confidence =
                           (IF H.confidence >= I.confidence THEN H.confidence
                            ELSE I.confidence)
                      /\ primary_hits[k].source = H.source
                 /\ ~In(H) /\ ~In(I)

\* C6: analyze returns no unknown-abbreviation hit whose span is NASA, is in
\* the known-abbreviation index of the rule patterns or is a common English
\* word, also where \bNASA\b itself does not match.
C6_NoKnownAbbrevAsUnknown ==
  pc = "done" =>
    \A k \in 1..Len(final_hits) :
      final_hits[k].label = UNKNOWN_LABEL =>
        /\ final_hits[k].span # <<78, 65, 83, 65>>
        /\ final_hits[k].span \notin _KNOWN_ABBREVS
        /\ final_hits[k].span \notin _COMMON_ENGLISH

\* analyze has answered for NASA1, where no rule, alias or fuzzy hit covers
\* the candidate NASA
C6_Witness ==
  /\ pc = "done" /\ text = NasaDigitText
  /\ known_hits = << >>
  /\ final_hits = << >>

\* C7: the unknown-abbreviation pass runs only after the known hits are
\* merged, none of its hits overlaps a known hit, and the final merge drops
\* nothing: every known hit and every unknown-abbreviation hit is returned.
C7_UnknownAfterKnownNoClash ==
  /\ pc \in {"regex", "alias", "collapse", "semantic", "merge_known", "unknown"}
       => hits_unknown = << >>
  /\ pc \in {"regex", "alias", "collapse", "semantic", "merge_known"}
       => known_hits = << >>
  /\ pc \in {"merge_final", "done"} =>
       /\ \A k \in 1..Len(known_hits) :
            \/ \E j \in 1..Len(primary_hits) : primary_hits[j] = known_hits[k]
            \/ \E j \in 1..Len(hits_semantic) : hits_semantic[j] = known_hits[k]
       /\ \A u \in 1..Len(hits_unknown), k \in 1..Len(known_hits) :
            \/ hits_unknown[u].end <= known_hits[k].start
            \/ known_hits[k].end <= hits_unknown[u].start
  /\ pc = "done" =>
       /\ Len(final_hits) = Len(known_hits) + Len(hits_unknown)
       /\ \A k \in 1..Len(known_hits) :
            \E j \in 1..Len(final_hits) : final_hits[j] = known_hits[k]
       /\ \A u \in 1..Len(hits_unknown) :
            \E j \in 1..Len(final_hits) : final_hits[j] = hits_unknown[u]

\* analyze has returned known hits and unknown-abbreviation hits together
C7_Witness ==
  /\ pc = "done"
  /\ known_hits # << >>
  /\ hits_unknown # << >>

-----------------------------------------------------------------------------
(* Properties of merge_hits                                                *)

\* C3 as stated: of two candidates passed to merge_hits with the same start,
\* the longer one is kept in the output, and at equal length the one of
\* higher confidence is kept in the output.
C3_PreferredAlwaysKept ==
  pc = "unknown" =>
    LET candidates == primary_hits \o hits_semantic
        Kept(h) == \E k \in 1..Len(known_hits) : known_hits[k] = h
    IN  \A i \in 1..Len(candidates), j \in 1..Len(candidates) :
          LET a == candidates[i]
              b == candidates[j]
          IN  ( /\ a.start = b.start
                /\ \/ a.end > b.end
                   \/ a.end = b.end /\ a.confidence > b.confidence )
              => Kept(a)

\* C3: of two candidates passed to merge_hits with the same start, the
\* shorter one (at equal length, the one of lower confidence) is never kept,
\* and the longer one (at equal length, the one of higher confidence) is kept
\* unless another kept candidate overlaps its start.
C3_PreferredKeptUnlessOverlapped ==
  pc = "unknown" =>
    LET candidates == primary_hits \o hits_semantic
        Kept(h) == \E k \in 1..Len(known_hits) : known_hits[k] = h
    IN  \A i \in 1..Len(candidates), j \in 1..Len(candidates) :
          LET a == candidates[i]
              b == candidates[j]
          IN  ( /\ a.start = b.start
                /\ \/ a.end > b.end
                   \/ a.end = b.end /\ a.confidence > b.confidence )
              => /\ ~Kept(b)
                 /\ \/ Kept(a)
                    \/ \E k \in 1..Len(known_hits) :
                         /\ known_hits[k] # a
                         /\ known_hits[k].start <= a.start
                         /\ a.start < known_hits[k].end

\* merge_hits has kept the longer of two candidates of the same start after a
\* shorter one of higher confidence was passed first
C3_Witness ==
  /\ pc = "unknown"
  /\ Len(primary_hits) = 2
  /\ primary_hits[1].start = primary_hits[2].start
  /\ primary_hits[1].end < primary_hits[2].end
  /\ primary_hits[1].confidence > primary_hits[2].confidence
  /\ known_hits = <<primary_hits[2]>>

-----------------------------------------------------------------------------
(* Properties of the byte counter                                          *)

\* C8: normalization is idempotent: with the same newline_mode, replace_nbsp
\* and remove_zero_width, normalizing a normalized text gives the same text,
\* hence the same UTF-8 byte length, also when a CR and an LF are separated
\* only by zero-width characters the first pass removes.
C8_NormalizeIdempotent ==
  (bresp.kind = "normalize" /\ bresp.calls = 2) =>
    /\ bresp.out = bresp.previous
    /\ utf8_byte_len(bresp.out) = utf8_byte_len(bresp.previous)

\* CR ZWSP LF has been normalized twice with zero-width removal
C8_Witness ==
  /\ bresp.kind = "normalize" /\ bresp.calls = 2
  /\ text = <<13, 8203, 10>>
  /\ breq.remove_zero_width
  /\ bresp.out # text

\* C9: analyze_bytes reports the number of codepoints as
\* char_count_including_spaces and the UTF-8 encoded length as utf8_bytes; a
\* text of n Hangul syllables has utf8_bytes 3n and n characters, and the
\* text 한 gives 3 and 1.
C9_ByteAndCharCounts ==
  bresp.kind = "byte_count" =>
    LET width(c) == IF c < 128 THEN 1 ELSE IF c < 2048 THEN 2
                    ELSE IF c < 65536 THEN 3 ELSE 4
        total[k \in 0..Len(text)] ==
          IF k = 0 THEN 0 ELSE total[k - 1] + width(text[k])
        r == bresp.result
    IN  /\ r.char_count_including_spaces = Len(text)
        /\ r.utf8_bytes = total[Len(text)]
        /\ (\A k \in 1..Len(text) : text[k] \in 44032..55203)
             => r.utf8_bytes = 3 * Len(text)
        /\ text = <<54620>>
             => (r.utf8_bytes = 3 /\ r.char_count_including_spaces = 1)

\* byte_count has answered for the text 한
C9_Witness ==
  /\ bresp.kind = "byte_count"
  /\ text = <<54620>>
  /\ bresp.result.utf8_bytes = 3

\* C10: analyze_bytes returns exactly one entry per occurrence of a codepoint
\* of the suspicious table, in ascending index order, with the position of the
\* codepoint as index and "U+XXXX" as codepoint, and no entry for any other
\* codepoint; a text whose only table codepoint is U+200B at index 5 yields
\* exactly one entry, of codepoint "U+200B" and index 5.
C10_SuspiciousEntries ==
  bresp.kind = "byte_count" =>
    LET s == bresp.result.suspicious
        table == {9, 10, 13, 160} \cup (8192..8205) \cup {8239, 8287, 12288, 65279}
        positions == {i \in 0..(Len(text) - 1) : text[i + 1] \in table}
        expected(c) ==
          CASE c = 9 -> "U+0009" [] c = 10 -> "U+000A" [] c = 13 -> "U+000D"
            [] c = 160 -> "U+00A0" [] c = 8203 -> "U+200B"
            [] c = 8239 -> "U+202F" [] c = 12288 -> "U+3000"
            [] c = 65279 -> "U+FEFF" [] OTHER -> "?"
    IN  /\ Len(s) = Cardinality(positions)
        /\ \A k \in 1..Len(s) :
             /\ s[k].index \in positions
             /\ s[k].codepoint = expected(text[s[k].index + 1])
        /\ \A k \in 1..(Len(s) - 1) : s[k].index < s[k + 1].index
        /\ text = ZwspExampleText
             => s = <<[index |-> 5, codepoint |-> "U+200B"]>>

\* byte_count has answered for the text with U+200B at index 5
C10_Witness ==
  /\ bresp.kind = "byte_count"
  /\ text = ZwspExampleText
  /\ Len(bresp.result.suspicious) = 1

-----------------------------------------------------------------------------
(* Properties of the particle inflector                                    *)

\* C11: for a particle of the closed set 으로/로/을/를/은/는/이/가/과/와,
\* chooseParticle returns the batchim-less variant of its pair (는/가/를/와/로)
\* when the final syllable of the base word has no batchim, and the batchim
\* variant (은/이/을/과/으로) when it has one, except that a final ㄹ gives 로
\* for the 로/으로 pair; any other particle is returned unchanged.
C11_ParticleByBatchim ==
  bresp.kind = "chooseParticle" =>
    LET w == JsTrim(breq.baseWord)
        p == breq.particle
        jong == (w[Len(w)] - 44032) % 28
        bare == CASE p \in {P_RO, P_EURO} -> P_RO [] p \in {P_WA, P_GWA} -> P_WA
                  [] p \in {P_NEUN, P_EUN} -> P_NEUN [] p \in {P_GA, P_I} -> P_GA
                  [] p \in {P_REUL, P_EUL} -> P_REUL [] OTHER -> p
        closed == CASE p \in {P_RO, P_EURO} -> IF jong = 8 THEN P_RO ELSE P_EURO
                    [] p \in {P_WA, P_GWA} -> P_GWA
                    [] p \in {P_NEUN, P_EUN} -> P_EUN [] p \in {P_GA, P_I} -> P_I
                    [] p \in {P_REUL, P_EUL} -> P_EUL [] OTHER -> p
    IN  IF p \notin {P_RO, P_EURO, P_WA, P_GWA, P_NEUN, P_EUN, P_GA, P_I,
                     P_REUL, P_EUL}
        THEN bresp.result = p
        ELSE (w # << >> /\ w[Len(w)] \in 44032..55203) =>
               bresp.result = (IF jong = 0 THEN bare ELSE closed)

\* chooseParticle has answered 로 for 서울 followed by 으로
C11_Witness ==
  /\ bresp.kind = "chooseParticle"
  /\ breq.baseWord = <<49436, 50872>>
  /\ breq.particle = P_EURO
  /\ bresp.result = P_RO

\* C12 as stated: chooseParticle("학교", "는") returns "은".
C12_SchoolTakesEun ==
  (bresp.kind = "chooseParticle" /\ breq.baseWord = SchoolWord
     /\ breq.particle = P_NEUN)
    => bresp.result = P_EUN

\* C12: chooseParticle("학교", "는") returns "는", 교 having no batchim.
C12_SchoolTakesNeun ==
  (bresp.kind = "chooseParticle" /\ breq.baseWord = SchoolWord
     /\ breq.particle = P_NEUN)
    => bresp.result = P_NEUN

\* chooseParticle has answered for 학교 followed by 는
C12_Witness ==
  /\ bresp.kind = "chooseParticle"
  /\ breq.baseWord = SchoolWord /\ breq.particle = P_NEUN

\* C13 as stated: chooseParticle("이동", "로") returns "로".
C13_MovingTakesRo ==
  (bresp.kind = "chooseParticle" /\ breq.baseWord = MovingWord
     /\ breq.particle = P_RO)
    => bresp.result = P_RO

\* C13: chooseParticle("이동", "로") returns "으로", the batchim of 동 being
\* ㅇ and not ㄹ.
C13_MovingTakesEuro ==
  (bresp.kind = "chooseParticle" /\ breq.baseWord = MovingWord
     /\ breq.particle = P_RO)
    => bresp.result = P_EURO

\* chooseParticle has answered for 이동 followed by 로
C13_Witness ==
  /\ bresp.kind = "chooseParticle"
  /\ breq.baseWord = MovingWord /\ breq.particle = P_RO

-----------------------------------------------------------------------------
(* Properties of the fuzzy pass and of the embedder                        *)

\* C14: every hit of the fuzzy pass has confidence clamp(score * 0.85, 0.6,
\* 0.88), below the auto-apply threshold 0.90 for every score, so neither the
\* preview nor apply-all ever substitutes a fuzzy hit: it is only highlighted.
C14_FuzzyNeverApplied ==
  /\ \A k \in 1..Len(hits_semantic) :
       /\ \E score \in 86..100 :
            hits_semantic[k].confidence =
              (IF score * 85 < 6000 THEN 6000
               ELSE IF score * 85 > 8800 THEN 8800 ELSE score * 85)
       /\ hits_semantic[k].confidence < MIN_PREVIEW_CONF
  /\ bresp.kind = "render" =>
       \A k \in 1..Len(final_hits) :
         (\E j \in 1..Len(hits_semantic) : hits_semantic[j] = final_hits[k]) =>
           \A p \in 1..Len(bresp.preview) :
             (bresp.preview[p].kind # "text"
                /\ bresp.preview[p].start = final_hits[k].start)
               => ( /\ bresp.preview[p].kind = "mark"
                    /\ bresp.preview[p].value = final_hits[k].span )
  /\ bresp.kind = "applyAll" =>
       \A r \in 1..Len(bresp.replaced) :
         \A j \in 1..Len(hits_semantic) : hits_semantic[j] # bresp.replaced[r]

\* apply-all has run on a result that holds a fuzzy hit with a replacement
C14_Witness ==
  /\ pc = "applied" /\ bresp.kind = "applyAll"
  /\ \E k \in 1..Len(final_hits) :
       /\ \E j \in 1..Len(hits_semantic) : hits_semantic[j] = final_hits[k]
       /\ final_hits[k].replacement \notin {<< >>, << << >> >>}

\* C15: if the embedder is absent, or a call to it raises, the fuzzy pass
\* yields no hits, analyze still returns the hits of the other passes and no
\* error reaches the caller.
C15_EmbedderFailureDegrades ==
  embedder \in {"absent", "failing"} =>
    /\ pc # "error"
    /\ hits_semantic = << >>
    /\ pc = "done" =>
         final_hits = merge_hits(<<primary_hits, detect_unknown_abbreviations(
                                      text, merge_hits(<<primary_hits>>))>>)

-----------------------------------------------------------------------------
\* C16: a rule whose pattern is not a valid regular expression makes the
\* startup fail: the module never reaches the serving state with such a rule
\* in its table, and no analysis request is the first to raise the error.
C16_InvalidPatternFailsStartup ==
  (\E r \in 1..Len(shared.rules) : ~IsValidPattern(shared.rules[r].pattern))
    => (shared.status # "serving" /\ pc # "error")

-----------------------------------------------------------------------------
\* C17: analyze and byte_count write no process-wide state (the rule table,
\* the known abbreviations, the exact-alias map and the alias index stay as
\* loaded), and under every interleaving of the concurrent calls each call
\* of analyze returns the hit list it returns when run alone on its text.
C17_CallsAreIsolated ==
  /\ shared = LoadedState
  /\ \A c \in DOMAIN calls :
       calls[c].pc = "done" =>
         calls[c].final_hits = AnalyzeAlone(calls[c].text, embedder)

\* the first call has returned its hits (a combined hit and a fuzzy one)
\* while a call on another text is between two statements with hits of its
\* own, and a byte_count has been served
C17_Witness ==
  /\ calls # << >>
  /\ calls[1].pc = "done" /\ calls[1].text = ParenAbbrevText
  /\ Len(calls[1].final_hits) = 2
  /\ calls[2].pc = "unknown" /\ calls[2].text = RuleAliasText
  /\ calls[2].known_hits # << >>
  /\ embedder = "present"
  /\ pc = "counted" /\ bresp.kind = "byte_count"

-----------------------------------------------------------------------------
\* the byte offset of codepoint offset k of the text
ByteOffset(t, k) == utf8_byte_len(Slice(t, 0, k))

\* C18 as stated: start and end of every hit returned by analyze are byte
\* offsets, so that the UTF-8 encoding of the text sliced at [start, end) is
\* the encoding of span.
C18_ByteOffsets ==
  pc = "done" =>
    \A k \in 1..Len(final_hits) :
      LET h == final_hits[k] IN
        /\ h.end <= utf8_byte_len(text)
        /\ Slice(Utf8Encode(text), h.start, h.end) = Utf8Encode(h.span)

\* C18, amended: start and end of every hit returned by analyze are codepoint
\* offsets: the text sliced at [start, end) is span, and the UTF-8 encoding
\* of the text sliced at the byte offsets of those two codepoint offsets is
\* the encoding of span; start is itself the byte offset exactly when no
\* multi-byte character precedes the hit.
C18_CodepointOffsets ==
  pc = "done" =>
    \A k \in 1..Len(final_hits) :
      LET h == final_hits[k] IN
        /\ 0 <= h.start /\ h.start <= h.end /\ h.end <= Len(text)
        /\ Slice(text, h.start, h.end) = h.span
        /\ Slice(Utf8Encode(text), ByteOffset(text, h.start),
                 ByteOffset(text, h.end)) = Utf8Encode(h.span)
        /\ (h.start = ByteOffset(text, h.start))
             <=> (\A i \in 0..(h.start - 1) : At(text, i) < 128)

\* analyze has returned a hit of a rule that Hangul characters precede: its
\* start is smaller than the byte offset of its first character
C18_Witness ==
  /\ pc = "done"
  /\ \E k \in 1..Len(final_hits) :
       LET h == final_hits[k] IN
         /\ h.source = 233 /\ h.start > 0
         /\ IsHangul(At(text, 0))
         /\ h.start < ByteOffset(text, h.start)

-----------------------------------------------------------------------------
\* C19: collapse_parenthetical_duplicates emits a combined hit for H only
\* with a hit I wholly inside the parenthesis that opens right after H (after
\* optional whitespace): no ")" lies between that "(" and I, and the combined
\* hit ends at the ")" closing that parenthesis; a hit in a later parenthesis
\* never combines with H.
C19_CombinesInsideSameParenOnly ==
  pc \in {"semantic", "merge_known", "unknown", "merge_final", "done"} =>
    LET hits == hits_rule \o hits_alias
        IsInput(h) == \E k \in 1..Len(hits) : hits[k] = h
    IN  \A n \in 1..Len(primary_hits) :
          LET c == primary_hits[n] IN
            ~IsInput(c) =>
              \E a \in 1..Len(hits), b \in 1..Len(hits) :
                LET H == hits[a]
                    I == hits[b]
                    open == SkipSpaces(text, H.end)
                IN  /\ H.start = c.start
                    /\ open < Len(text) /\ At(text, open) = 40
                    /\ I.start > open /\ I.end < c.end
                    /\ H.label = I.label /\ H.replacement = I.replacement
                    /\ At(text, c.end - 1) = 41
                    /\ \A p \in (open + 1)..(c.end - 2) : At(text, p) # 41

\* C20: collapse_parenthetical_duplicates combines H and I only when their
\* shared replacement is not empty: no combined hit has an absent or empty
\* replacement, and every candidate of a deletion rule passes through
\* unchanged.
C20_EmptyReplacementNeverCombined ==
  pc \in {"semantic", "merge_known", "unknown", "merge_final", "done"} =>
    LET hits == hits_rule \o hits_alias
        IsInput(h) == \E k \in 1..Len(hits) : hits[k] = h
        IsOutput(h) == \E k \in 1..Len(primary_hits) : primary_hits[k] = h
    IN  /\ \A n \in 1..Len(primary_hits) :
             ~IsInput(primary_hits[n]) =>
               primary_hits[n].replacement \notin {<< >>, << << >> >>}
        /\ \A k \in 1..Len(hits) :
             hits[k].replacement \in {<< >>, << << >> >>} => IsOutput(hits[k])

-----------------------------------------------------------------------------
\* C21: the exclusion mask of the unknown-abbreviation pass is the union of
\* the spans of all hits the literal, alias and fuzzy passes computed, also
\* of those the merge dropped: no unknown-abbreviation hit in the result of
\* analyze overlaps the span of a hit one of those passes produced.
C21_MaskOfAllCandidates ==
  pc = "done" =>
    LET candidates == hits_rule \o hits_alias \o hits_semantic IN
      \A k \in 1..Len(final_hits), c \in 1..Len(candidates) :
        final_hits[k].source = 414 =>
          ~(final_hits[k].start < candidates[c].end
              /\ candidates[c].start < final_hits[k].end)

-----------------------------------------------------------------------------
\* the rule of the table a hit has its source from
RuleOfHit(h) == CHOOSE r \in {RULES[k] : k \in 1..Len(RULES)} : r.line = h.source

\* C22 as stated: every hit of the exact-alias pass has confidence 0.94,
\* which is at least the preview threshold 0.90 and below the confidence of
\* the literal hits of every rule of the table.
C22_AliasBelowEveryRule ==
  \A k \in 1..Len(hits_alias) :
    /\ hits_alias[k].confidence = 9400
    /\ hits_alias[k].confidence >= MIN_PREVIEW_CONF
    /\ \A r \in 1..Len(RULES) : hits_alias[k].confidence < RULES[r].confidence

\* C22, amended: every hit of the exact-alias pass has confidence 0.94, which
\* is at least the preview threshold 0.90 and below the confidence of the
\* literal hits of exactly the rules whose confidence exceeds 0.94; the hits
\* of an alias of the rule at line 209 (confidence 0.92) are above the
\* literal hits of their own rule.
C22_AliasConfidenceFixed ==
  \A k \in 1..Len(hits_alias) :
    LET h == hits_alias[k] IN
      /\ h.confidence = 9400
      /\ h.confidence >= MIN_PREVIEW_CONF
      /\ \A r \in 1..Len(RULES) :
           (h.confidence < RULES[r].confidence) <=> (RULES[r].confidence > 9400)
      /\ (h.confidence > RuleOfHit(h).confidence) <=> (h.source = 209)

\* analyze has returned for a text in which an alias of the rule at line 209
\* was matched by the exact-alias pass
C22_Witness ==
  /\ pc = "done"
  /\ \E k \in 1..Len(hits_alias) :
       /\ hits_alias[k].source = 209
       /\ RuleOfHit(hits_alias[k]).confidence = 9200

-----------------------------------------------------------------------------
\* the number of codepoints of t within lo..hi
CountIn(t, lo, hi) == Cardinality({k \in 1..Len(t) : t[k] \in lo..hi})

\* C23 as stated: in utf8_bytes every codepoint above U+007F counts 3 bytes:
\* utf8_bytes = (codepoints <= U+007F) + 3 * (codepoints > U+007F), also for
\* texts with NBSP or codepoints beyond U+FFFF.
C23_ThreeBytesAboveAscii ==
  bresp.kind = "byte_count" =>
    bresp.result.utf8_bytes =
      CountIn(text, 0, 127) + 3 * CountIn(text, 128, 1114111)

\* C23, amended: in utf8_bytes a codepoint counts 1 byte up to U+007F, 2 bytes
\* from U+0080 to U+07FF (NBSP among them), 3 bytes from U+0800 to U+FFFF
\* (all Hangul among them) and 4 bytes beyond U+FFFF.
C23_Utf8Widths ==
  bresp.kind = "byte_count" =>
    /\ bresp.result.utf8_bytes =
         CountIn(text, 0, 127) + 2 * CountIn(text, 128, 2047)
           + 3 * CountIn(text, 2048, 65535) + 4 * CountIn(text, 65536, 1114111)
    /\ bresp.result.utf8_bytes
         = CountIn(text, 0, 127) + 3 * CountIn(text, 128, 1114111)
           - CountIn(text, 128, 2047) + CountIn(text, 65536, 1114111)

\* byte_count has answered for a text with NBSP next to a Hangul syllable:
\* fewer bytes than three per codepoint above U+007F
C23_Witness ==
  /\ bresp.kind = "byte_count"
  /\ CountIn(text, 160, 160) > 0 /\ CountIn(text, 44032, 55203) > 0
  /\ bresp.result.utf8_bytes
       < CountIn(text, 0, 127) + 3 * CountIn(text, 128, 1114111)

-----------------------------------------------------------------------------
\* C24: when the literal pass and the exact-alias pass both produce a hit of
\* the same span with the same label and replacement, the hit of that span
\* retained by the de-duplication of collapse_parenthetical_duplicates, and
\* in the result of analyze, carries the higher of the two confidences.
C24_DuplicateKeepsHigherConfidence ==
  pc = "done" =>
    \A r \in 1..Len(hits_rule), a \in 1..Len(hits_alias) :
      LET R == hits_rule[r]
          A == hits_alias[a]
          Same(h) == /\ h.start = R.start /\ h.end = R.end
                     /\ h.label = R.label /\ h.replacement = R.replacement
          higher == IF R.confidence >= A.confidence THEN R.confidence
                    ELSE A.confidence
      IN  Same(A) =>
            /\ \A k \in 1..Len(primary_hits) :
                 Same(primary_hits[k]) => primary_hits[k].confidence = higher
            /\ \A k \in 1..Len(final_hits) :
                 Same(final_hits[k]) => final_hits[k].confidence = higher

-----------------------------------------------------------------------------
\* C25: every hit in the result of analyze that stems from a deletion rule
\* (delete_with_particle true, replacement "") has delete_with_particle true,
\* whether the rule's pattern or one of its aliases matched or the hit was
\* combined by the parenthetical collapse: no returned hit has replacement ""
\* with delete_with_particle false.
C25_DeletionHitsCarryFlag ==
  pc = "done" =>
    \A k \in 1..Len(final_hits) :
      LET h == final_hits[k] IN
        /\ h.replacement = << << >> >> => h.delete_with_particle
        /\ (h.source # 414 /\ RuleOfHit(h).delete_with_particle
              /\ RuleOfHit(h).replacement = << << >> >>)
             => h.delete_with_particle

-----------------------------------------------------------------------------
\* C26 as stated: the output of merge_hits does not depend on the order of
\* its input: exchanging the lists or permuting the hits inside a list gives
\* the same result, also when two candidates tie on start, length and
\* confidence and differ in label or replacement.
C26_MergeOrderIndependent ==
  pc = "reordered" => final_hits = known_hits

\* C26, amended: the spans and confidences of the output of merge_hits do
\* not depend on the order of its input, and the output as a whole does not
\* when no two different candidates tie on start, length and confidence; of
\* candidates that tie on all three, the one passed first is kept.
C26_MergeOrderUpToTies ==
  pc = "reordered" =>
    LET candidates == primary_hits \o hits_semantic
        Place(h) == <<h.start, h.end, h.confidence>>
        passed == Concat(breq.hit_groups)
    IN  /\ [k \in 1..Len(final_hits) |-> Place(final_hits[k])]
             = [k \in 1..Len(known_hits) |-> Place(known_hits[k])]
        /\ (\A i \in 1..Len(candidates), j \in 1..Len(candidates) :
              Place(candidates[i]) = Place(candidates[j])
                => candidates[i] = candidates[j])
             => final_hits = known_hits
        /\ \A k \in 1..Len(final_hits) :
             \E i \in 1..Len(passed) :
               /\ passed[i] = final_hits[k]
               /\ \A j \in 1..(i - 1) : Place(passed[j]) # Place(passed[i])

\* merge_hits has been called on two candidates that tie on start, length
\* and confidence and differ in label, in both orders, and has kept a
\* different one each time
C26_Witness ==
  /\ pc = "reordered"
  /\ Len(primary_hits) = 2
  /\ primary_hits[1].start = primary_hits[2].start
  /\ primary_hits[1].end = primary_hits[2].end
  /\ primary_hits[1].confidence = primary_hits[2].confidence
  /\ primary_hits[1].label # primary_hits[2].label
  /\ known_hits = <<primary_hits[1]>>
  /\ final_hits = <<primary_hits[2]>>

-----------------------------------------------------------------------------
\* C27: with newline_mode LF normalization never increases the byte count:
\* utf8_byte_len(normalize_for_neis(t, "LF")) <= utf8_byte_len(t) for every
\* text and every setting of replace_nbsp and remove_zero_width, so a
\* byte_count request with normalize and newline_mode LF reports
\* normalized_utf8_bytes <= utf8_bytes.
C27_NormalizeLfNeverGrows ==
  /\ (bresp.kind = "normalize" /\ breq.newline_mode = "LF")
       => utf8_byte_len(bresp.out) <= utf8_byte_len(bresp.previous)
  /\ (bresp.kind = "byte_count" /\ breq.normalize /\ breq.newline_mode = "LF")
       => bresp.normalized_utf8_bytes[1] <= bresp.result.utf8_bytes

\* byte_count has answered a request with normalize and newline_mode LF for
\* a text with a CR and an NBSP, with fewer bytes after normalization than
\* before
C27_Witness ==
  /\ bresp.kind = "byte_count" /\ breq.normalize /\ breq.newline_mode = "LF"
  /\ \E i \in 1..Len(text), j \in 1..Len(text) : text[i] = 13 /\ text[j] = 160
  /\ bresp.normalized_utf8_bytes[1] < bresp.result.utf8_bytes

=============================================================================
